---- MODULE Spec2Model ----
(***************************************************************************)
(* The round-based agent loop of src/src/models/action.ts: ActionImpl      *)
(* (execute, executeSingleRound, handleHistoryImageMessages) and the       *)
(* synthetic return_output tool built by createReturnTool.                 *)
(*                                                                         *)
(* The language-model transport (generateStream), the caller's tools and   *)
(* the lifecycle hooks are outside the repository's core: they are the     *)
(* environment, and every outcome they can produce is a nondeterministic   *)
(* choice of an action below.  JavaScript runs each callback to its next   *)
(* await without interleaving, so one action is the code between two       *)
(* suspension points.  The transport, the tools and the hooks act only      *)
(* while execute is suspended; the caller, who owns context.signal, acts    *)
(* whenever no code of the program is running.  The return of              *)
(* executeSingleRound to the execute that awaits it is a suspension point   *)
(* as well.                                                                 *)
(***************************************************************************)
EXTENDS Integers, Sequences, FiniteSets, TLC

\* ------------------------------------------------------------------ bounds
\* config.maxRounds ranges over 1..MaxRoundsCfg
MaxRoundsCfg == 2
\* failed stream attempts in one run, or in one attempt of SpecLive (the code
\* retries without a bound)
MaxStreamErrors == 1
\* invocations (onToolUse events) the transport delivers in one run
MaxInvocations == 2
\* text chunks (onContent events) the transport delivers in one run
MaxTexts == 1
\* tool executions that are in flight at the same time
MaxExecs == 2
\* calls of execute on the one ActionImpl instance
MaxRuns == 1
\* the same two bounds of SpecSeq, whose environment never fails
MaxInvocationsSeq == 4
MaxRunsSeq == 2
MaxHistory == 3          \* messages of a history handed to the image pruning
MaxApplications == 2     \* applications of a helper to one argument
MaxTools == 2            \* tools a caller hands to the constructor, and tools of the context
MaxInvocationsLive == 1  \* invocations of one stream attempt of a behaviour checked for progress
MaxCompressed == 3       \* messages of a history handed to the compressor

\* ------------------------------------------------------- values and inputs
ReturnName == "return_output"
ActName == "act"
\* names the model may put in an invocation
CallNames == {ActName, ReturnName, "nope"}
\* invocation ids the transport may supply (it may repeat them), in the order
\* in which it first uses them
IdOrder == << "a", "b" >>
Ids == {IdOrder[k] : k \in 1..Len(IdOrder)}
\* text chunks of onContent; the first one is whitespace only
Blank == " "
Chunks == {Blank, "hi"}
\* JavaScript's undefined
UNDEF == "undefined"
\* the empty result {} of execute
EmptyOutput == "{}"
ActionName == "task"
ErrText == "disk full"

\* what a caller's tool may resolve to: {text?, image?}
ToolResults ==
  { [text |-> "A", image |-> FALSE],
    [text |-> "B", image |-> TRUE] }
\* the value createReturnTool.execute resolves to, { success: true }
ReturnToolResult == [text |-> "success", image |-> FALSE]

\* the true input of an invocation, nested under toolCall in the envelope:
\* absent, the arguments of a caller's tool, or the finish payload
NoCall == [tag |-> "none", isSuccessful |-> FALSE, use_tool_result |-> FALSE, value |-> UNDEF]
ActArgs == [tag |-> "args", isSuccessful |-> FALSE, use_tool_result |-> FALSE, value |-> UNDEF]
Payloads ==
  { [tag |-> "payload", isSuccessful |-> TRUE, use_tool_result |-> FALSE, value |-> "V"],
    [tag |-> "payload", isSuccessful |-> FALSE, use_tool_result |-> TRUE, value |-> UNDEF] }
\* what the model may send as toolCall when it names `name`
CallInputs(name) ==
  IF name = ReturnName THEN Payloads \cup {NoCall} ELSE {ActArgs}

\* What a hook does before it settles.  Both hooks get the context: a hook
\* may set context.__skip or context.__abort, throw, or resolve with a value
\* that replaces the invocation's input (before) or the tool's result (after).
BeforeOutcomes == {"pass", "skip", "abort", "throw", "rewrite"}
AfterOutcomes == {"pass", "skip", "abort", "throw", "rewrite"}
\* the toolCall of the envelope a rewriting beforeToolUse hook resolves with
HookInput(name) ==
  IF name = ReturnName
    THEN [tag |-> "payload", isSuccessful |-> TRUE, use_tool_result |-> FALSE, value |-> "V"]
    ELSE ActArgs
\* the result a rewriting afterToolUse hook resolves with
HookResult == [text |-> "B", image |-> TRUE]
\* no result yet
NoResult == [text |-> UNDEF, image |-> FALSE]

\* ---------------------------------------------------------------- messages
\* One record shape for every Message.  type "text" is string content;
\* "tool_use" and "tool_result" are a one-block content array.  A tool_use
\* carries the invocation's input, here the toolCall of its envelope.  A
\* tool_result's own content is a string (arr = FALSE, in text) or an array
\* of blocks (arr = TRUE, in content).
Msg(role, type, id, name, input, text, arr, content, is_error) ==
  [role |-> role, type |-> type, id |-> id, name |-> name, input |-> input, text |-> text,
   arr |-> arr, content |-> content, is_error |-> is_error]
NoMsg == Msg("none", "none", "", "", NoCall, "", FALSE, <<>>, FALSE)
TextMsg(role, text) == Msg(role, "text", "", "", NoCall, text, FALSE, <<>>, FALSE)
ToolUseMsg(id, name, input) ==
  Msg("assistant", "tool_use", id, name, input, "", FALSE, <<>>, FALSE)
StrResultMsg(id, text) == Msg("user", "tool_result", id, "", NoCall, text, FALSE, <<>>, FALSE)
ArrResultMsg(id, content, is_error) ==
  Msg("user", "tool_result", id, "", NoCall, "", TRUE, content, is_error)
TextBlock(t) == [type |-> "text", data |-> t]
ImageBlock == [type |-> "image", data |-> "png"]

SystemPrompt == "system prompt"
UserPrompt == "user prompt"
NoToolInstruction ==
  "Please process the above information and return a final result using the return_output tool."
MaxRoundsInstruction ==
  "Maximum number of steps reached. Please return the best result possible with the return_output tool."

\* ------------------------------------------------------- JavaScript's Map
\* A Map is the sequence of its entries in insertion order, keys unique.
MapHas(m, k) == \E i \in 1..Len(m) : m[i].key = k
MapGet(m, k) == m[CHOOSE i \in 1..Len(m) : m[i].key = k].val
\* Map.set: an existing key keeps its position, a new key goes last
MapSet(m, k, v) ==
  IF MapHas(m, k)
    THEN [i \in 1..Len(m) |-> IF m[i].key = k THEN [key |-> k, val |-> v] ELSE m[i]]
    ELSE Append(m, [key |-> k, val |-> v])
MapDelete(m, k) == SelectSeq(m, LAMBDA e : e.key # k)
\* Array.from(map.values()).pop()
LastValue(m) == IF Len(m) = 0 THEN UNDEF ELSE m[Len(m)].val

\* ------------------------------------------------------- tool registry
\* this.tools of the constructor: the caller's tools, then the WriteContextTool
ActionTools ==
  << [name |-> ActName, origin |-> "action"],
     [name |-> "write_context", origin |-> "action"] >>
\* context.tools; a caller may register a tool under the finish tool's name
ContextTools == << [name |-> ReturnName, origin |-> "context"] >>
ReturnTool == [name |-> ReturnName, origin |-> "return"]

RECURSIVE SetAll(_, _, _)
\* tools.forEach((tool) => toolMap.set(tool.name, tool)), from index i on
SetAll(m, tools, i) ==
  IF i > Len(tools) THEN m
  ELSE SetAll(MapSet(m, tools[i].name, tools[i]), tools, i + 1)

\* a registry that enters the return tool first
ToolMapReturnFirst(actionTools, contextTools) ==
  SetAll(SetAll(MapSet(<<>>, ReturnTool.name, ReturnTool), actionTools, 1), contextTools, 1)

\* lines 409-412: action tools, then context tools, then the return tool
ToolMapOf(actionTools, contextTools) ==
  MapSet(SetAll(SetAll(<<>>, actionTools, 1), contextTools, 1), ReturnTool.name, ReturnTool)
\* execute's toolMap
BuildToolMap == ToolMapOf(ActionTools, ContextTools)
\* lines 445-449: the tools advertised to the model, in the map's order
Advertised(map) == [k \in 1..Len(map) |-> map[k].val]
\* new Map([[returnTool.name, returnTool]]) of the finish-only rounds
ReturnOnlyMap == MapSet(<<>>, ReturnTool.name, ReturnTool)

\* ---------------------------------------------- the return_output tool
OutputKey == "__action_" \o ActionName \o "_output"
SuccessKey == "__isSuccessful__"
BoolVal(b) == [tag |-> "bool", isSuccessful |-> b, use_tool_result |-> FALSE, value |-> UNDEF]
TypeErrorText == "Cannot read properties of undefined (reading 'isSuccessful')"

\* createReturnTool(...).execute(context, params): the variable store after
\* the call.  params undefined (tag "none") is stored under the output key
\* before reading params.isSuccessful throws.
ReturnToolStore(store, params) ==
  LET first == MapSet(store, OutputKey, params)
  IN IF params.tag = "none" THEN first
     ELSE MapSet(first, SuccessKey, BoolVal(params.isSuccessful))
ReturnToolThrows(params) == params.tag = "none"

\* ------------------------------------------------ building a tool_result
\* JSON.stringify(result)
Stringify(result) ==
  IF result = ReturnToolResult THEN "{\"success\":true}"
  ELSE "{\"text\":\"" \o result.text \o "\"}"

\* resultContent of lines 232-248, as the one message of lines 254-257
ResultMessage(id, result) ==
  IF result.image
    THEN ArrResultMsg(id,
           IF result.text # "" THEN <<ImageBlock, TextBlock(result.text)>>
           ELSE <<ImageBlock>>, FALSE)
    ELSE ArrResultMsg(id, <<TextBlock(Stringify(result))>>, FALSE)

\* resultContentText of lines 249-253: what the ToolResultCache records
ResultContentText(result) ==
  IF result.image
    THEN (IF result.text # "" THEN result.text \o " [Image]" ELSE "[Image]")
    ELSE Stringify(result)

\* a catch block that leaves the error result unflagged
ErrorResultUnflagged(id, errorMessage) ==
  ArrResultMsg(id, <<TextBlock("Error: " \o errorMessage)>>, FALSE)

\* the catch block of lines 278-294
ErrorResult(id, errorMessage) ==
  ArrResultMsg(id, <<TextBlock("Error: " \o errorMessage)>>, TRUE)
\* a skip reported as a failure
SkipResultAsError(id) == ArrResultMsg(id, <<TextBlock("skip")>>, TRUE)

\* lines 190-199
SkipResult(id) == StrResultMsg(id, "skip")
\* lines 149-158; the source quotes the name in backquotes, which a TLA+
\* string cannot hold, so the model writes them as apostrophes
NotFoundResult(id, name) == StrResultMsg(id, "Error: '" \o name \o "' tool not found.")

\* this.toolResults.set(toolCall.id, resultContentText) unless return_output
RecordResult(cache, name, id, result) ==
  IF name # ReturnName THEN MapSet(cache, id, ResultContentText(result)) ELSE cache

\* --------------------------------------------------------- image pruning
\* a filter that drops one image per pass
StripOneImage(m) ==
  IF m.type = "tool_result" /\ m.arr /\ Len(m.content) > 0
       /\ \E k \in 1..Len(m.content) : m.content[k].type = "image"
    THEN LET first == CHOOSE k \in 1..Len(m.content) :
                        /\ m.content[k].type = "image"
                        /\ \A j \in 1..(k - 1) : m.content[j].type # "image"
             kept == SubSeq(m.content, 1, first - 1) \o SubSeq(m.content, first + 1, Len(m.content))
         IN [m EXCEPT !.content = IF Len(kept) = 0 THEN <<TextBlock("ok")>> ELSE kept]
    ELSE m

\* a filter that leaves an emptied content array empty
StripImagesBare(m) ==
  IF m.type = "tool_result" /\ m.arr /\ Len(m.content) > 0
    THEN [m EXCEPT !.content = SelectSeq(m.content, LAMBDA c : c.type # "image")]
    ELSE m

\* lines 361-373, for the one block of a message's content array
StripImages(m) ==
  IF m.type = "tool_result" /\ m.arr /\ Len(m.content) > 0
    THEN LET kept == SelectSeq(m.content, LAMBDA c : c.type # "image")
         IN [m EXCEPT !.content = IF Len(kept) = 0 THEN <<TextBlock("ok")>> ELSE kept]
    ELSE m

RECURSIVE PruneFrom(_, _, _)
\* the loop of lines 351-376 from index i down, foundFirstUser = found
PruneFrom(ms, i, found) ==
  IF i = 0 THEN ms
  ELSE IF ms[i].role = "user"
    THEN IF ~found THEN PruneFrom(ms, i - 1, TRUE)
         ELSE PruneFrom([ms EXCEPT ![i] = StripImages(ms[i])], i - 1, TRUE)
    ELSE PruneFrom(ms, i - 1, found)

\* a pruning that does not spare the most recent user message
PruneEveryUser(ms) == PruneFrom(ms, Len(ms), TRUE)

handleHistoryImageMessages(ms) == PruneFrom(ms, Len(ms), FALSE)

\* ----------------------------------------------------------- finalization
NoOutcome == [kind |-> "none", nodeOutput |-> "", error |-> "", reacts |-> <<>>]
\* a return that leaves the seed messages out of the history
ReturnedUnseeded(v, ms) ==
  [kind |-> "return", nodeOutput |-> v, error |-> "", reacts |-> SubSeq(ms, 3, Len(ms))]

\* return { nodeOutput, reacts }
Returned(v, ms) == [kind |-> "return", nodeOutput |-> v, error |-> "", reacts |-> ms]
\* throw new Error(e)
Thrown(e) == [kind |-> "throw", nodeOutput |-> "", error |-> e, reacts |-> <<>>]

\* context.variables.get(outputKey), line 545; NoCall is undefined
OutputParams(store) == IF MapHas(store, OutputKey) THEN MapGet(store, OutputKey) ELSE NoCall

\* a finalization without the guard of line 546: reading use_tool_result of
\* undefined throws
FinalOutcomeUnguarded(store, cache, ms) ==
  LET outputParams == OutputParams(store)
      outputValue == IF outputParams.use_tool_result
                       THEN LastValue(cache) ELSE outputParams.value
  IN IF outputParams.tag = "none" THEN Thrown(TypeErrorText)
     ELSE IF outputValue = UNDEF THEN Returned(EmptyOutput, ms)
     ELSE Returned(outputValue, ms)

\* lines 543-562: what execute returns
FinalOutcome(store, cache, ms) ==
  LET outputParams == OutputParams(store)
  IN IF outputParams.tag = "none"
       THEN Returned(EmptyOutput, ms)
       ELSE LET outputValue == IF outputParams.use_tool_result
                                 THEN LastValue(cache) ELSE outputParams.value
            IN IF outputValue = UNDEF THEN Returned(EmptyOutput, ms)
               ELSE Returned(outputValue, ms)

\* lines 546-550: the output key is deleted once a payload was read
FinalStore(store) ==
  IF OutputParams(store).tag = "none" THEN store ELSE MapDelete(store, OutputKey)

\* ------------------------------------------------------------------ state
VARIABLES
  pc,                   \* where execute is: idle, window, tabs, loop, attempt, stream, join, ret,
                        \* final, done, failed
  runNo,                \* calls of execute so far
  maxRounds,            \* ActionImpl.maxRounds
  llmProvider,          \* ActionImpl.llmProvider is set
  toolResults,          \* ActionImpl.toolResults, the ToolResultCache
  variables,            \* context.variables
  signalAborted,        \* context.signal.aborted
  abortFlag,            \* context.__abort
  listening,            \* an abort listener of lines 114-118 is on context.signal
  skipFlag,             \* context.__skip
  messages,             \* execute's messages, the history
  roundCount,           \* execute's roundCount
  phase,                \* which executeSingleRound call runs: full, notool, maxed
  outcome,              \* how execute ended: its return value or the error it threw
  response,             \* executeSingleRound's response
  hasToolUse,           \* executeSingleRound's hasToolUse
  roundMessages,        \* executeSingleRound's roundMessages
  assistantTextMessage, \* the attempt's text buffer
  toolUseMessage,       \* the attempt's tool_use message, NoMsg for null
  toolResultMessage,    \* the attempt's tool_result message, NoMsg for null
  promise,              \* the attempt's toolExecutionPromise: none, pending, settled
  budget,               \* what the environment may still do: runs, stream errors, invocations, texts;
                        \* perAttempt: each attempt of a round is given its invocations and errors anew
  usedIds,              \* the invocation ids the transport has supplied so far
  calls,                \* the names of the invocations of the open stream
  completed,            \* onComplete was delivered in the open stream
  execs,                \* the tool executions in flight (the async closures of onToolUse)
  committed,            \* history: rounds and instruction messages appended in this run
  lastRound,            \* history: the messages and the phase of the round appended last
  recorded,             \* history: how many results this run cached, and the last one
  finalView,            \* history: the payload and the recorded results finalization saw
  finishCalls,          \* history: invocations the run's finish-only rounds delivered to the return tool
  given,                \* the argument handed to a helper function studied on its own
  yielded,              \* what the helper has made of it
  applied               \* how many times the helper was applied

progVars ==
  << pc, runNo, maxRounds, llmProvider, toolResults, variables, signalAborted, abortFlag,
     listening, skipFlag,
     messages, roundCount, phase, outcome, response, hasToolUse, roundMessages,
     assistantTextMessage, toolUseMessage, toolResultMessage, promise, calls,
     completed, execs, budget, usedIds, committed, lastRound, recorded, finalView, finishCalls >>
vars == << progVars, given, yielded, applied >>
\* what no step of a run changes
fixedVars == << maxRounds, llmProvider, given, yielded, applied >>

ctxVars == << variables, signalAborted, abortFlag, listening, skipFlag >>
roundVars == << response, hasToolUse, roundMessages >>
attemptVars ==
  << assistantTextMessage, toolUseMessage, toolResultMessage, promise, calls, completed >>
histVars == << committed, lastRound, recorded, finalView, finishCalls >>
envVars == << budget, usedIds >>

\* generateStream is called, line 314: what the transport may do in the
\* attempt that begins.  Under per-attempt budgets every attempt may deliver
\* MaxInvocationsLive invocations and may fail, however many attempts and
\* rounds came before it.
Renewed(b) ==
  IF b.perAttempt THEN [b EXCEPT !.inv = MaxInvocationsLive, !.err = MaxStreamErrors] ELSE b

\* a history counter's next value; under per-attempt budgets, where a run has
\* no bound on its invocations, it counts to MaxInvocationsLive and stays
Counted(n) == IF budget.perAttempt /\ n >= MaxInvocationsLive THEN n ELSE n + 1

\* Ids are opaque to the code, so the transport's first id is IdOrder[1], and
\* each later id is one it used before or the next one of IdOrder.
IdChoices == usedIds \cup (IF Cardinality(usedIds) < Len(IdOrder)
                             THEN {IdOrder[Cardinality(usedIds) + 1]} ELSE {})

NoResponse == [present |-> FALSE, toolCalls |-> <<>>]
NoFinalView == [params |-> NoCall, recorded |-> [n |-> 0, last |-> UNDEF]]

\* no code of the program is running: execute was not called, has ended or
\* is suspended at an await, that of executeSingleRound's return (lines 465,
\* 499 and 533) included
CallerMayAct ==
  pc \in {"idle", "window", "tabs", "stream", "join", "ret", "done", "failed"}

\* execute is suspended or has ended: the executions it started may go on,
\* also between the return of executeSingleRound and the resumption of execute
MayRun == pc \in {"window", "tabs", "stream", "join", "ret", "done", "failed"}

RemoveAt(s, i) == SubSeq(s, 1, i - 1) \o SubSeq(s, i + 1, Len(s))
\* the attempt that started these executions is over: nothing reads the
\* locals they write, nothing awaits them
Orphaned(es) == [i \in 1..Len(es) |-> [es[i] EXCEPT !.live = FALSE, !.awaited = FALSE]]
\* a later onToolUse of the same attempt overwrites toolExecutionPromise
Unawaited(es) == [i \in 1..Len(es) |-> [es[i] EXCEPT !.awaited = FALSE]]

ResetAttempt ==
  /\ assistantTextMessage' = ""
  /\ toolUseMessage' = NoMsg
  /\ toolResultMessage' = NoMsg
  /\ promise' = "none"
  /\ calls' = <<>>
  /\ completed' = FALSE

\* the call this.executeSingleRound(...) of lines 465, 499 and 533, to line 99
EnterRound(ph) ==
  /\ pc' = "attempt"
  /\ phase' = ph
  /\ response' = NoResponse
  /\ hasToolUse' = FALSE
  /\ roundMessages' = <<>>
  /\ ResetAttempt

\* the toolMap argument of the executeSingleRound call that runs
CurToolMap == IF phase = "full" THEN BuildToolMap ELSE ReturnOnlyMap

Init ==
  /\ pc = "idle"
  /\ runNo = 0
  /\ maxRounds \in 1..MaxRoundsCfg
  /\ llmProvider \in BOOLEAN
  /\ toolResults = <<>>
  /\ variables = <<>>
  /\ signalAborted = FALSE
  /\ abortFlag = FALSE
  /\ listening = FALSE
  /\ skipFlag = FALSE
  /\ messages = <<>>
  /\ roundCount = 0
  /\ phase = "full"
  /\ outcome = NoOutcome
  /\ response = NoResponse
  /\ hasToolUse = FALSE
  /\ roundMessages = <<>>
  /\ assistantTextMessage = ""
  /\ toolUseMessage = NoMsg
  /\ toolResultMessage = NoMsg
  /\ promise = "none"
  /\ budget = [runs |-> MaxRuns, inv |-> MaxInvocations, err |-> MaxStreamErrors,
               text |-> MaxTexts, perAttempt |-> FALSE]
  /\ usedIds = {}
  /\ calls = <<>>
  /\ completed = FALSE
  /\ execs = <<>>
  /\ committed = [full |-> 0, finish |-> 0, instr |-> 0, msgs |-> 0]
  /\ lastRound = [msgs |-> <<>>, phase |-> "none"]
  /\ recorded = [n |-> 0, last |-> UNDEF]
  /\ finalView = NoFinalView
  /\ finishCalls = 0
  /\ given = <<>>
  /\ yielded = <<>>
  /\ applied = 0

\* ---------------------------------------------------------------- execute
\* execute, lines 398-415: a call on the instance, with the caller's
\* context, to the await of chromeProxy.windows.getCurrent()
Execute ==
  /\ pc \in {"idle", "done", "failed"}
  /\ budget.runs > 0
  /\ runNo' = runNo + 1
  /\ messages' = <<>>
  /\ roundCount' = 0
  /\ outcome' = NoOutcome
  /\ pc' = "window"
  /\ phase' = "full"
  /\ committed' = [full |-> 0, finish |-> 0, instr |-> 0, msgs |-> 0]
  /\ lastRound' = [msgs |-> <<>>, phase |-> "none"]
  /\ recorded' = [n |-> 0, last |-> UNDEF]
  /\ finalView' = NoFinalView
  /\ finishCalls' = 0
  /\ budget' = [budget EXCEPT !.runs = @ - 1]
  /\ UNCHANGED << fixedVars, toolResults, ctxVars, roundVars, attemptVars, execs, usedIds >>

\* chromeProxy.windows.getCurrent() settles, line 415: on to the await of
\* chromeProxy.tabs.query, line 416, or execute rejects with the proxy's error
WindowsGetCurrent(ok) ==
  /\ pc = "window"
  /\ IF ok THEN pc' = "tabs" /\ UNCHANGED outcome
           ELSE pc' = "failed" /\ outcome' = Thrown("no window")
  /\ UNCHANGED << runNo, fixedVars, toolResults, ctxVars, messages, roundCount, phase,
                  roundVars, attemptVars, execs, histVars, envVars >>

\* chromeProxy.tabs.query settles, lines 416-454: the history is seeded and
\* the loop is reached, or execute rejects with the proxy's error
TabsQuery(ok) ==
  /\ pc = "tabs"
  /\ IF ok THEN /\ pc' = "loop"
                /\ messages' = << TextMsg("system", SystemPrompt), TextMsg("user", UserPrompt) >>
                /\ UNCHANGED outcome
           ELSE /\ pc' = "failed"
                /\ outcome' = Thrown("no window")
                /\ UNCHANGED messages
  /\ UNCHANGED << runNo, fixedVars, toolResults, ctxVars, roundCount, phase,
                  roundVars, attemptVars, execs, histVars, envVars >>

\* a loop that admits one round more than the configured maximum
LoopContinuesInclusive == roundCount <= maxRounds

\* the condition of the while loop, line 456
LoopContinues == roundCount < maxRounds

\* the head of the while loop, lines 456-470
LoopHead ==
  /\ pc = "loop"
  /\ IF LoopContinues
       THEN IF signalAborted
         THEN /\ pc' = "failed"
              /\ outcome' = Thrown("Workflow cancelled")
              /\ UNCHANGED << roundCount, phase, roundVars, attemptVars >>
         ELSE /\ roundCount' = roundCount + 1
              /\ EnterRound("full")
              /\ UNCHANGED outcome
       ELSE /\ pc' = "final"
            /\ UNCHANGED << roundCount, phase, outcome, roundVars, attemptVars >>
  /\ UNCHANGED << runNo, fixedVars, toolResults, ctxVars, messages, execs, histVars, envVars >>

\* ----------------------------------------------------- executeSingleRound
\* an attempt that opens the stream without looking at the signal
AttemptStartUnchecked ==
  /\ pc = "attempt"
  /\ roundMessages' = <<>>
  /\ hasToolUse' = FALSE
  /\ response' = NoResponse
  /\ listening' = TRUE
  /\ messages' = handleHistoryImageMessages(messages)
  /\ IF llmProvider
       THEN pc' = "stream" /\ UNCHANGED outcome
       ELSE pc' = "failed" /\ outcome' = Thrown("LLM provider not set")
  /\ ResetAttempt
  /\ budget' = Renewed(budget)
  /\ UNCHANGED << runNo, fixedVars, toolResults, variables, signalAborted, abortFlag,
                  skipFlag, roundCount, phase, execs, histVars, usedIds >>

\* the head of the while loop, lines 100-119 and 307-314: leave the loop when
\* the signal is aborted, else reset, add the abort listener, prune the
\* history and open the stream, or throw when there is no provider
AttemptStart ==
  /\ pc = "attempt"
  /\ IF signalAborted
       THEN /\ pc' = "ret"
            /\ UNCHANGED << messages, roundVars, listening, outcome >>
       ELSE /\ roundMessages' = <<>>
            /\ hasToolUse' = FALSE
            /\ response' = NoResponse
            /\ listening' = TRUE
            /\ messages' = handleHistoryImageMessages(messages)
            /\ IF llmProvider
                 THEN pc' = "stream" /\ UNCHANGED outcome
                 ELSE pc' = "failed" /\ outcome' = Thrown("LLM provider not set")
  /\ ResetAttempt
  /\ budget' = Renewed(budget)
  /\ UNCHANGED << runNo, fixedVars, toolResults, variables, signalAborted, abortFlag,
                  skipFlag, roundCount, phase, execs, histVars, usedIds >>

\* handler.onContent, lines 121-125
OnContent(content) ==
  /\ pc = "stream"
  /\ ~completed
  /\ IF content # "" /\ content # Blank
       THEN /\ budget.text > 0
            /\ budget' = [budget EXCEPT !.text = @ - 1]
            /\ assistantTextMessage' = assistantTextMessage \o content
       ELSE UNCHANGED << budget, assistantTextMessage >>
  /\ UNCHANGED << pc, runNo, fixedVars, toolResults, ctxVars, messages, roundCount, phase,
                  outcome, roundVars, toolUseMessage, toolResultMessage, promise, calls,
                  completed, execs, histVars, usedIds >>

\* handler.onToolUse for a name the toolMap lacks, lines 134-160.  The async
\* handler rejects; a transport that awaits it makes generateStream reject,
\* which lines 315-319 take for a stream error (propagate), and a transport
\* that does not await it goes on with the stream.
OnToolUseUnknown(id, name, propagate) ==
  /\ pc = "stream"
  /\ ~completed
  /\ ~MapHas(CurToolMap, name)
  /\ id \in IdChoices
  /\ usedIds' = usedIds \cup {id}
  /\ budget.inv > 0
  /\ propagate => budget.err > 0
  /\ budget' = [budget EXCEPT !.inv = @ - 1, !.err = IF propagate THEN @ - 1 ELSE @]
  /\ calls' = Append(calls, name)
  /\ hasToolUse' = TRUE
  /\ toolUseMessage' = ToolUseMsg(id, name, ActArgs)
  /\ toolResultMessage' = NotFoundResult(id, name)
  /\ IF propagate
       THEN /\ pc' = "attempt"
            /\ execs' = Orphaned(execs)
       ELSE UNCHANGED << pc, execs >>
  /\ UNCHANGED << runNo, fixedVars, toolResults, ctxVars, messages, roundCount, phase,
                  outcome, response, roundMessages, assistantTextMessage,
                  promise, completed, histVars >>

\* handler.onToolUse for a tool of the toolMap, lines 134-136 and 162-188: the
\* tool_use message, then the execution closure runs to its first await
OnToolUseKnown(id, name, input) ==
  /\ pc = "stream"
  /\ ~completed
  /\ MapHas(CurToolMap, name)
  /\ Len(execs) < MaxExecs
  /\ id \in IdChoices
  /\ usedIds' = usedIds \cup {id}
  /\ budget.inv > 0
  /\ budget' = [budget EXCEPT !.inv = @ - 1]
  /\ calls' = Append(calls, name)
  /\ hasToolUse' = TRUE
  /\ toolUseMessage' = ToolUseMsg(id, MapGet(CurToolMap, name).name, input)
  /\ skipFlag' = FALSE
  /\ execs' = Append(Unawaited(execs),
                 [id |-> id, name |-> MapGet(CurToolMap, name).name,
                  origin |-> MapGet(CurToolMap, name).origin, input |-> input,
                  result |-> NoResult, stage |-> "before", live |-> TRUE, awaited |-> TRUE])
  /\ promise' = "pending"
  /\ finishCalls' = IF phase = "full" THEN finishCalls ELSE Counted(finishCalls)
  /\ UNCHANGED << pc, runNo, fixedVars, toolResults, variables, signalAborted, abortFlag,
                  listening, messages, roundCount, phase, outcome, response, roundMessages,
                  assistantTextMessage, toolResultMessage, completed, committed, lastRound,
                  recorded, finalView >>

\* handler.onComplete, lines 297-299: the transport reports completion once,
\* after the stream's last content and invocation, with its invocations
OnComplete ==
  /\ pc = "stream"
  /\ ~completed
  /\ completed' = TRUE
  /\ response' = [present |-> TRUE, toolCalls |-> calls]
  /\ UNCHANGED << pc, runNo, fixedVars, toolResults, ctxVars, messages, roundCount, phase,
                  outcome, hasToolUse, roundMessages, assistantTextMessage,
                  toolUseMessage, toolResultMessage, promise, calls, execs,
                  histVars, envVars >>

\* generateStream resolves, line 314
StreamEnd ==
  /\ pc = "stream"
  /\ completed
  /\ pc' = "join"
  /\ UNCHANGED << runNo, fixedVars, toolResults, ctxVars, messages, roundCount, phase,
                  outcome, roundVars, attemptVars, execs, histVars, envVars >>

\* generateStream rejects (handler.onError rethrows, lines 300-304): the
\* catch of lines 315-319 goes to the next iteration
StreamError ==
  /\ pc = "stream"
  /\ budget.err > 0
  /\ budget' = [budget EXCEPT !.err = @ - 1]
  /\ pc' = "attempt"
  /\ execs' = Orphaned(execs)
  /\ UNCHANGED << runNo, fixedVars, toolResults, ctxVars, messages, roundCount, phase,
                  outcome, roundVars, attemptVars, histVars, usedIds >>

\* ------------------------------------------- the tool execution closure
\* a closure that writes one toolResultMessage shared by all attempts
FinishShared(i, msg) ==
  /\ execs' = RemoveAt(execs, i)
  /\ toolResultMessage' = msg
  /\ promise' = IF execs[i].awaited THEN "settled" ELSE promise

\* The closure of lines 175-295 ends: it wrote msg to its attempt's
\* toolResultMessage, and its promise settles.
Finish(i, msg) ==
  /\ execs' = RemoveAt(execs, i)
  /\ toolResultMessage' = IF execs[i].live THEN msg ELSE toolResultMessage
  /\ promise' = IF execs[i].awaited THEN "settled" ELSE promise

\* the catch block, lines 278-294
Catch(i, errorMessage) == Finish(i, ErrorResult(execs[i].id, errorMessage))

\* the awaited beforeToolUse hook settles, lines 180-217: the hook passed,
\* asked for a skip (context.__skip), flagged an abort (context.__abort),
\* threw, or resolved with an input that replaces toolCall.input (185-187);
\* unless skipped, tool.execute is called with the unwrapped input, and the
\* return tool's execute writes the store in that call
BeforeSettle(i, o) ==
  /\ MayRun
  /\ i \in 1..Len(execs)
  /\ execs[i].stage = "before"
  /\ IF o = "throw"
       THEN /\ Catch(i, ErrText)
            /\ UNCHANGED << skipFlag, abortFlag, variables >>
       ELSE /\ skipFlag' = (skipFlag \/ o = "skip")
            /\ abortFlag' = (abortFlag \/ o = "abort")
            /\ IF skipFlag' \/ abortFlag' \/ signalAborted
                 THEN /\ Finish(i, SkipResult(execs[i].id))
                      /\ UNCHANGED variables
                 ELSE LET input == IF o = "rewrite" THEN HookInput(execs[i].name)
                                   ELSE execs[i].input
                      IN /\ execs' = [execs EXCEPT ![i].stage = "exec", ![i].input = input]
                         /\ variables' = IF execs[i].origin = "return"
                                           THEN ReturnToolStore(variables, input)
                                           ELSE variables
                         /\ UNCHANGED << toolResultMessage, promise >>
  /\ UNCHANGED << pc, runNo, fixedVars, toolResults, signalAborted, listening, messages,
                  roundCount, phase, outcome, roundVars, assistantTextMessage,
                  toolUseMessage, calls, completed, histVars, envVars >>

\* the awaited tool.execute rejects, line 219 to the catch block
ExecReject(i) ==
  /\ MayRun
  /\ i \in 1..Len(execs)
  /\ execs[i].stage = "exec"
  /\ execs[i].origin = "return" => ReturnToolThrows(execs[i].input)
  /\ Catch(i, IF execs[i].origin = "return" THEN TypeErrorText ELSE ErrText)
  /\ UNCHANGED << pc, runNo, fixedVars, toolResults, ctxVars, messages, roundCount, phase,
                  outcome, roundVars, assistantTextMessage, toolUseMessage, calls,
                  completed, histVars, envVars >>

\* the awaited tool.execute resolves with result, lines 219-226, to the await
\* of the afterToolUse hook
ExecResolve(i, result) ==
  /\ MayRun
  /\ i \in 1..Len(execs)
  /\ execs[i].stage = "exec"
  /\ IF execs[i].origin = "return"
       THEN ~ReturnToolThrows(execs[i].input) /\ result = ReturnToolResult
       ELSE result \in ToolResults
  /\ execs' = [execs EXCEPT ![i].stage = "after", ![i].result = result]
  /\ UNCHANGED << pc, runNo, fixedVars, toolResults, ctxVars, messages, roundCount, phase,
                  outcome, roundVars, attemptVars, histVars, envVars >>

\* the awaited afterToolUse hook settles, lines 222-277: the hook passed, set
\* context.__skip or context.__abort, threw, or resolved with a result that
\* replaces the tool's (227-229); the tool_result message is built and the
\* result is cached
AfterSettle(i, o) ==
  /\ MayRun
  /\ i \in 1..Len(execs)
  /\ execs[i].stage = "after"
  /\ IF o = "throw"
       THEN /\ Catch(i, ErrText)
            /\ UNCHANGED << toolResults, recorded, skipFlag, abortFlag >>
       ELSE LET result == IF o = "rewrite" THEN HookResult ELSE execs[i].result
            IN /\ Finish(i, ResultMessage(execs[i].id, result))
               /\ toolResults' = RecordResult(toolResults, execs[i].name, execs[i].id, result)
               /\ recorded' = IF execs[i].name # ReturnName
                                THEN [n |-> Counted(recorded.n), last |-> ResultContentText(result)]
                                ELSE recorded
               /\ skipFlag' = (skipFlag \/ o = "skip")
               /\ abortFlag' = (abortFlag \/ o = "abort")
  /\ UNCHANGED << pc, runNo, fixedVars, variables, signalAborted, listening, messages,
                  roundCount, phase, outcome, roundVars, assistantTextMessage,
                  toolUseMessage, calls, completed, committed, lastRound, finalView,
                  finishCalls, envVars >>

\* ------------------------------------------------- the end of an attempt
\* an assembly that puts the text after the tool messages
AssembleTextLast(text, use, res) ==
  (IF use # NoMsg THEN << use >> ELSE <<>>)
    \o (IF res # NoMsg THEN << res >> ELSE <<>>)
    \o (IF text # "" THEN << TextMsg("assistant", text) >> ELSE <<>>)

\* lines 330-339: text, then tool_use, then tool_result
Assemble(text, use, res) ==
  (IF text # "" THEN << TextMsg("assistant", text) >> ELSE <<>>)
    \o (IF use # NoMsg THEN << use >> ELSE <<>>)
    \o (IF res # NoMsg THEN << res >> ELSE <<>>)

\* lines 321-342: the awaited execution has settled; the abort check, then
\* the round's messages and the return
JoinRound ==
  /\ pc = "join"
  /\ promise # "pending"
  /\ IF abortFlag
       THEN /\ pc' = "failed"
            /\ outcome' = Thrown("Abort")
            /\ UNCHANGED roundMessages
       ELSE /\ pc' = "ret"
            /\ roundMessages' = Assemble(assistantTextMessage, toolUseMessage, toolResultMessage)
            /\ UNCHANGED outcome
  /\ execs' = Orphaned(execs)
  /\ UNCHANGED << runNo, fixedVars, toolResults, ctxVars, messages, roundCount, phase,
                  response, hasToolUse, attemptVars, histVars, envVars >>

\* ------------------------------------------------ execute, after a round
\* a commit that keeps the history from its third message on
CommitDroppingSeed(ms, instr) ==
  /\ messages' = SubSeq(ms, 3, Len(ms))
  /\ lastRound' = [msgs |-> roundMessages, phase |-> phase]
  /\ committed' = [full |-> committed.full + (IF phase = "full" THEN 1 ELSE 0),
                   finish |-> committed.finish + (IF phase = "full" THEN 0 ELSE 1),
                   instr |-> committed.instr + instr,
                   msgs |-> committed.msgs + Len(roundMessages)]

\* the round's messages are appended, lines 474-475, 505 and 539
Commit(ms, instr) ==
  /\ messages' = ms
  /\ lastRound' = [msgs |-> roundMessages, phase |-> phase]
  /\ committed' = [full |-> committed.full + (IF phase = "full" THEN 1 ELSE 0),
                   finish |-> committed.finish + (IF phase = "full" THEN 0 ELSE 1),
                   instr |-> committed.instr + instr,
                   msgs |-> committed.msgs + Len(roundMessages)]

\* line 478: the round ended with a response and without an invocation
NoToolRound == ~hasToolUse /\ response.present
\* a break that looks for the finish capability under another name
ReturnCalledOtherName ==
  /\ response.present
  /\ \E k \in 1..Len(response.toolCalls) : response.toolCalls[k] = "return"

\* line 509: the response's invocations include the return tool
ReturnCalled ==
  /\ response.present
  /\ \E k \in 1..Len(response.toolCalls) : response.toolCalls[k] = ReturnName
\* line 514
LastRound == roundCount = maxRounds
\* a finish-only round that always falls back into the loop
AfterFinishPcLoops(ph) == "loop"

\* after a finish-only round: the break of line 506, or the end of the loop
\* body at line 541
AfterFinishPc(ph) == IF ph = "notool" THEN "final" ELSE "loop"

\* lines 472-540 after the full round, lines 505-506 and 539-541 after a
\* finish-only round
AfterRound ==
  /\ pc = "ret"
  /\ IF phase = "full"
       THEN IF NoToolRound
         THEN /\ Commit(Append(messages \o roundMessages, TextMsg("user", NoToolInstruction)), 1)
              /\ EnterRound("notool")
         ELSE IF ReturnCalled
           THEN /\ Commit(messages \o roundMessages, 0)
                /\ pc' = "final"
                /\ ResetAttempt
                /\ UNCHANGED << phase, roundVars >>
           ELSE IF LastRound
             THEN /\ Commit(Append(messages \o roundMessages,
                                   TextMsg("user", MaxRoundsInstruction)), 1)
                  /\ EnterRound("maxed")
             ELSE /\ Commit(messages \o roundMessages, 0)
                  /\ pc' = "loop"
                  /\ ResetAttempt
                  /\ UNCHANGED << phase, roundVars >>
       ELSE /\ Commit(messages \o roundMessages, 0)
            /\ pc' = AfterFinishPc(phase)
            /\ ResetAttempt
            /\ UNCHANGED << phase, roundVars >>
  /\ UNCHANGED << runNo, fixedVars, toolResults, ctxVars, roundCount, outcome, execs,
                  recorded, finalView, finishCalls, envVars >>

\* lines 543-562
Finalize ==
  /\ pc = "final"
  /\ pc' = "done"
  /\ outcome' = FinalOutcome(variables, toolResults, messages)
  /\ finalView' = [params |-> OutputParams(variables), recorded |-> recorded]
  /\ variables' = FinalStore(variables)
  /\ UNCHANGED << runNo, fixedVars, toolResults, signalAborted, abortFlag, listening,
                  skipFlag, messages, roundCount, phase, roundVars, attemptVars, execs,
                  committed, lastRound, recorded, finishCalls, envVars >>

\* ------------------------------------------------------------ cancellation
\* The caller aborts context.signal, before, during or after a run; the
\* listeners of lines 114-118, added by every attempt and never removed, set
\* context.__abort.
SignalAbort ==
  /\ CallerMayAct
  /\ ~signalAborted
  /\ signalAborted' = TRUE
  /\ abortFlag' = (abortFlag \/ listening)
  /\ UNCHANGED << pc, runNo, fixedVars, toolResults, variables, listening, skipFlag, messages,
                  roundCount, phase, outcome, roundVars, attemptVars, execs, histVars, envVars >>

Next ==
  \/ Execute
  \/ \E ok \in BOOLEAN : WindowsGetCurrent(ok)
  \/ \E ok \in BOOLEAN : TabsQuery(ok)
  \/ LoopHead
  \/ AttemptStart
  \/ \E c \in Chunks : OnContent(c)
  \/ \E id \in Ids, name \in CallNames, propagate \in BOOLEAN :
       OnToolUseUnknown(id, name, propagate)
  \/ \E id \in Ids, name \in CallNames, input \in Payloads \cup {NoCall, ActArgs} :
       input \in CallInputs(name) /\ OnToolUseKnown(id, name, input)
  \/ OnComplete
  \/ StreamEnd
  \/ StreamError
  \/ \E i \in 1..MaxExecs, o \in BeforeOutcomes : BeforeSettle(i, o)
  \/ \E i \in 1..MaxExecs : ExecReject(i)
  \/ \E i \in 1..MaxExecs, r \in ToolResults \cup {ReturnToolResult} : ExecResolve(i, r)
  \/ \E i \in 1..MaxExecs, o \in AfterOutcomes : AfterSettle(i, o)
  \/ JoinRound
  \/ AfterRound
  \/ Finalize
  \/ SignalAbort

Spec == Init /\ [][Next]_vars

\* ------------------------------------------------ a well-behaved environment
\* The runs in which nothing fails: no cancellation, no transport error, no
\* unknown name, the hooks pass and the tools resolve.  They are runs of Spec
\* with larger budgets, so what fails here fails in the program.
InitSeq ==
  /\ pc = "idle"
  /\ runNo = 0
  /\ maxRounds \in 1..MaxRoundsCfg
  /\ llmProvider = TRUE
  /\ toolResults = <<>>
  /\ variables = <<>>
  /\ signalAborted = FALSE
  /\ abortFlag = FALSE
  /\ listening = FALSE
  /\ skipFlag = FALSE
  /\ messages = <<>>
  /\ roundCount = 0
  /\ phase = "full"
  /\ outcome = NoOutcome
  /\ response = NoResponse
  /\ hasToolUse = FALSE
  /\ roundMessages = <<>>
  /\ assistantTextMessage = ""
  /\ toolUseMessage = NoMsg
  /\ toolResultMessage = NoMsg
  /\ promise = "none"
  /\ calls = <<>>
  /\ completed = FALSE
  /\ execs = <<>>
  /\ budget = [runs |-> MaxRunsSeq, inv |-> MaxInvocationsSeq, err |-> 0, text |-> 0,
               perAttempt |-> FALSE]
  /\ usedIds = {}
  /\ committed = [full |-> 0, finish |-> 0, instr |-> 0, msgs |-> 0]
  /\ lastRound = [msgs |-> <<>>, phase |-> "none"]
  /\ recorded = [n |-> 0, last |-> UNDEF]
  /\ finalView = NoFinalView
  /\ finishCalls = 0
  /\ given = <<>>
  /\ yielded = <<>>
  /\ applied = 0

NextSeq ==
  \/ Execute
  \/ WindowsGetCurrent(TRUE)
  \/ TabsQuery(TRUE)
  \/ LoopHead
  \/ AttemptStart
  \/ \E id \in Ids, name \in {ActName, ReturnName}, input \in Payloads \cup {ActArgs} :
       input \in CallInputs(name) /\ OnToolUseKnown(id, name, input)
  \/ OnComplete
  \/ StreamEnd
  \/ \E i \in 1..MaxExecs : BeforeSettle(i, "pass")
  \/ \E i \in 1..MaxExecs, r \in ToolResults \cup {ReturnToolResult} : ExecResolve(i, r)
  \/ \E i \in 1..MaxExecs : AfterSettle(i, "pass")
  \/ JoinRound
  \/ AfterRound
  \/ Finalize

SpecSeq == InitSeq /\ [][NextSeq]_vars

\* ------------------------------------------- image pruning on its own
\* the state of an instance on which execute was never called, its
\* maxRounds and the environment's budgets apart
Constructed ==
  /\ pc = "idle"
  /\ runNo = 0
  /\ toolResults = <<>>
  /\ variables = <<>>
  /\ signalAborted = FALSE
  /\ abortFlag = FALSE
  /\ listening = FALSE
  /\ skipFlag = FALSE
  /\ messages = <<>>
  /\ roundCount = 0
  /\ phase = "full"
  /\ outcome = NoOutcome
  /\ response = NoResponse
  /\ hasToolUse = FALSE
  /\ roundMessages = <<>>
  /\ assistantTextMessage = ""
  /\ toolUseMessage = NoMsg
  /\ toolResultMessage = NoMsg
  /\ promise = "none"
  /\ calls = <<>>
  /\ completed = FALSE
  /\ execs = <<>>
  /\ usedIds = {}
  /\ committed = [full |-> 0, finish |-> 0, instr |-> 0, msgs |-> 0]
  /\ lastRound = [msgs |-> <<>>, phase |-> "none"]
  /\ recorded = [n |-> 0, last |-> UNDEF]
  /\ finalView = NoFinalView
  /\ finishCalls = 0

\* an instance that is never run
NeverRun ==
  /\ Constructed
  /\ maxRounds = 1
  /\ llmProvider = TRUE
  /\ budget = [runs |-> 0, inv |-> 0, err |-> 0, text |-> 0, perAttempt |-> FALSE]

\* the content arrays of a tool_result block
PruneContents ==
  { <<>>, <<ImageBlock>>, <<TextBlock("A")>>, <<TextBlock("A"), ImageBlock>>,
    <<ImageBlock, ImageBlock>> }
\* the messages of a history
PruneMessages ==
  { TextMsg("assistant", "hi"), TextMsg("user", UserPrompt),
    ToolUseMsg("a", ActName, ActArgs), StrResultMsg("a", "skip") }
    \cup { ArrResultMsg("a", c, FALSE) : c \in PruneContents }
Histories == UNION { [1..n -> PruneMessages] : n \in 0..MaxHistory }

InitPrune ==
  /\ NeverRun
  /\ given \in Histories
  /\ yielded = given
  /\ applied = 0

\* this.handleHistoryImageMessages(messages), line 307: the history is
\* rewritten in place
ApplyPrune ==
  /\ applied < MaxApplications
  /\ yielded' = handleHistoryImageMessages(yielded)
  /\ applied' = applied + 1
  /\ UNCHANGED << progVars, given >>

SpecPrune == InitPrune /\ [][ApplyPrune]_vars

\* ------------------------------------------- the tool registry on its own
CallerNames == { ActName, ReturnName, "other" }
\* the lists of at most MaxTools tools of one origin
ToolLists(origin) ==
  UNION { [1..n -> { [name |-> nm, origin |-> origin] : nm \in CallerNames }] : n \in 0..MaxTools }

InitRegistry ==
  /\ NeverRun
  /\ given \in [action : ToolLists("action"), context : ToolLists("context")]
  /\ yielded = <<>>
  /\ applied = 0

\* the constructor's this.tools = [...tools, writeContextTool], lines 67-81,
\* and the toolMap execute builds from it and the context's tools
BuildRegistry ==
  /\ applied = 0
  /\ yielded' = ToolMapOf(Append(given.action, [name |-> "write_context", origin |-> "action"]),
                          given.context)
  /\ applied' = 1
  /\ UNCHANGED << progVars, given >>

SpecRegistry == InitRegistry /\ [][BuildRegistry]_vars

\* ------------------------------------------- the input envelope on its own
\* the properties wrapToolInputSchema puts around a tool's schema
EnvelopeFields == << "observation", "thinking", "userSidePrompt", "toolCall" >>
StringProperty(description) == [type |-> "string", description |-> description]

\* wrapToolInputSchema(definition), lines 718-746
wrapToolInputSchema(definition) ==
  [definition EXCEPT !.input_schema =
     [type |-> "object",
      properties |->
        [observation |-> StringProperty("Your observation of the previous steps."),
         thinking |-> StringProperty("Your thinking draft."),
         userSidePrompt |-> StringProperty("The user-side prompt, showing what you are doing."),
         toolCall |-> definition.input_schema],
      required |-> EnvelopeFields]]

\* an unwrapping that hands the whole envelope to the tool
unwrapToolCallWhole(toolCall) ==
  [observation |-> toolCall.input.observation,
   thinking |-> toolCall.input.thinking,
   userSidePrompt |-> toolCall.input.userSidePrompt,
   toolCall |-> [id |-> toolCall.id, name |-> toolCall.name, input |-> toolCall.input]]

\* unwrapToolCall(toolCall), lines 748-760
unwrapToolCall(toolCall) ==
  [observation |-> toolCall.input.observation,
   thinking |-> toolCall.input.thinking,
   userSidePrompt |-> toolCall.input.userSidePrompt,
   toolCall |-> [id |-> toolCall.id, name |-> toolCall.name, input |-> toolCall.input.toolCall]]

\* the schemas tools declare; the second is that of the return tool, lines
\* 30-49
Schemas ==
  { [type |-> "object", properties |-> <<"url">>, required |-> <<"url">>],
    [type |-> "object", properties |-> <<"isSuccessful", "use_tool_result", "value">>,
     required |-> <<"isSuccessful", "use_tool_result", "value">>],
    [type |-> "string", properties |-> <<>>, required |-> <<>>] }
Definitions ==
  [name : CallNames, description : {"a tool"}, input_schema : Schemas]
\* the invocations a model makes through the envelope; UNDEF is a field the
\* model left out
Envelopes ==
  [observation : {UNDEF, "In the previous step, I've ..."},
   thinking : {UNDEF, "", "draft"},
   userSidePrompt : {UNDEF, "Opening x.com."},
   toolCall : Payloads \cup {NoCall, ActArgs}]
Invocations == [id : Ids, name : CallNames, input : Envelopes]

InitEnvelope ==
  /\ NeverRun
  /\ given \in ([kind : {"call"}, arg : Invocations] \cup [kind : {"definition"}, arg : Definitions])
  /\ yielded = <<>>
  /\ applied = 0

\* this.unwrapToolCall(toolCall), line 205
Unwrap ==
  /\ applied = 0
  /\ given.kind = "call"
  /\ yielded' = unwrapToolCall(given.arg)
  /\ applied' = 1
  /\ UNCHANGED << progVars, given >>

\* params_copy.tools?.map(this.wrapToolInputSchema), line 98
Wrap ==
  /\ applied = 0
  /\ given.kind = "definition"
  /\ yielded' = wrapToolInputSchema(given.arg)
  /\ applied' = 1
  /\ UNCHANGED << progVars, given >>

SpecEnvelope == InitEnvelope /\ [][Unwrap \/ Wrap]_vars

\* ------------------------------------------- the result cache on its own
\* const maxLength = 1000 of truncate, line 261; truncate's value goes to
\* logger.info only
maxLength == 1000
TruncatedSuffix == "...(truncated)"

\* a text longer than maxLength and the suffix
LongText ==
  LET Chars40 == "0123456789012345678901234567890123456789"
      Chars320 == Chars40 \o Chars40 \o Chars40 \o Chars40 \o Chars40 \o Chars40
                    \o Chars40 \o Chars40
  IN Chars320 \o Chars320 \o Chars320 \o Chars320
\* what a tool's execute resolves with
RecordableResults ==
  ToolResults \cup { ReturnToolResult,
                     [text |-> "", image |-> TRUE],
                     [text |-> LongText, image |-> FALSE],
                     [text |-> LongText, image |-> TRUE] }
\* the cache an execution finds
FoundCaches == { <<>>, <<[key |-> "a", val |-> "old"]>>, <<[key |-> "b", val |-> "old"]>> }

InitRecord ==
  /\ NeverRun
  /\ given \in [name : CallerNames, id : Ids, result : RecordableResults, cache : FoundCaches]
  /\ yielded = <<>>
  /\ applied = 0

\* lines 249-253 and 274-277 for one execution that resolved
Record ==
  /\ applied = 0
  /\ yielded' = RecordResult(given.cache, given.name, given.id, given.result)
  /\ applied' = 1
  /\ UNCHANGED << progVars, given >>

SpecRecord == InitRecord /\ [][Record]_vars

\* --------------------------------------- SimpleQAComporess, lines 781-825
\* a property an object does not have
Absent == "absent"
\* the input of a block that has none, and of a wrapped tool call
NoInput == [present |-> FALSE, userSidePrompt |-> Absent, thinking |-> Absent,
            observation |-> Absent]
WrappedInput(p, t, o) == [present |-> TRUE, userSidePrompt |-> p, thinking |-> t,
                          observation |-> o]
Block(type, text, input) == [type |-> type, text |-> text, input |-> input]
\* a message's content: a string or an array of blocks
StringContent(t) == [isString |-> TRUE, text |-> t, blocks |-> <<>>]
ArrayContent(bs) == [isString |-> FALSE, text |-> "", blocks |-> bs]
QAMessage(role, content) == [role |-> role, content |-> content]

\* JSON.parse(JSON.stringify(messages)), line 785: a property whose value is
\* undefined is not written
JsonField(v) == IF v = UNDEF THEN Absent ELSE v
JsonBlock(b) ==
  IF b.input.present
    THEN [b EXCEPT !.input = WrappedInput(JsonField(b.input.userSidePrompt),
                                          JsonField(b.input.thinking),
                                          JsonField(b.input.observation))]
    ELSE b
JsonMessage(m) ==
  QAMessage(m.role,
            [m.content EXCEPT !.blocks = [j \in 1..Len(m.content.blocks) |->
                                            JsonBlock(m.content.blocks[j])]])
JsonCopy(ms) == [k \in 1..Len(ms) |-> JsonMessage(ms[k])]

\* ${value} of the template literals of lines 797 and 809
TemplateText(v) == IF v \in {Absent, UNDEF} THEN "undefined" ELSE v

\* (msg.content[0] as ToolCall).input.<property> throws a TypeError: the
\* content is a string (its first character has no input), the array is
\* empty, or its first block has no input
FirstInputThrows(m) ==
  \/ m.content.isString
  \/ Len(m.content.blocks) = 0
  \/ ~m.content.blocks[1].input.present

\* the callback of messages.forEach for the message at position k (idx =
\* k - 1), lines 787-821: what it pushes, or that it throws
CompressOne(ms, k) ==
  LET msg == ms[k]
      push(m) == [throws |-> FALSE, out |-> <<m>>]
  IN IF msg.role = "system" THEN push(msg)
     ELSE IF msg.role = "assistant"
       THEN IF k = Len(ms) - 1 \/ msg.content.isString THEN push(msg)
            ELSE IF FirstInputThrows(msg) THEN [throws |-> TRUE, out |-> <<>>]
            ELSE push(QAMessage("assistant", StringContent(
                   "<task>" \o TemplateText(msg.content.blocks[1].input.userSidePrompt)
                     \o "</task><details>"
                     \o TemplateText(msg.content.blocks[1].input.thinking)
                     \o "</details>")))
     ELSE IF msg.role = "user" \/ msg.content.isString
       THEN IF k = Len(ms) THEN push(msg)
            ELSE LET next == ms[k + 1]    \* msg = messages[idx+1], line 805
                 IN IF FirstInputThrows(next)
                      THEN push(next)     \* the catch block pushes msg, line 817
                      ELSE push(QAMessage("user", StringContent(
                             "<result>"
                               \o TemplateText(next.content.blocks[1].input.observation)
                               \o "</result>")))
     ELSE [throws |-> FALSE, out |-> <<>>]

RECURSIVE CompressFrom(_, _, _)
\* messages.forEach from position k on, comporessed = acc
CompressFrom(ms, k, acc) ==
  IF k > Len(ms) THEN [kind |-> "return", out |-> acc]
  ELSE LET r == CompressOne(ms, k)
       IN IF r.throws THEN [kind |-> "throw", out |-> <<>>]
          ELSE CompressFrom(ms, k + 1, acc \o r.out)

\* SimpleQAComporess.comporess
comporess(ms) == CompressFrom(JsonCopy(ms), 1, <<>>)

\* the messages of a history handed to the compressor
QAMessages ==
  { QAMessage("system", StringContent("sys")),
    QAMessage("assistant", StringContent("hi")),
    QAMessage("assistant", ArrayContent(<<Block("tool_use", "", WrappedInput("p", "t", "o"))>>)),
    QAMessage("assistant", ArrayContent(<<Block("tool_use", "", WrappedInput("p", UNDEF, Absent))>>)),
    QAMessage("assistant", ArrayContent(<<Block("text", "A", NoInput)>>)),
    QAMessage("user", StringContent("q")),
    QAMessage("user", ArrayContent(<<Block("tool_result", "A", NoInput)>>)),
    QAMessage("user", ArrayContent(<<>>)),
    QAMessage("tool", StringContent("r")),
    QAMessage("tool", ArrayContent(<<Block("text", "A", NoInput)>>)) }
QAHistories == UNION { [1..n -> QAMessages] : n \in 0..MaxCompressed }

InitCompress ==
  /\ NeverRun
  /\ given \in QAHistories
  /\ yielded = [kind |-> "none", out |-> <<>>]
  /\ applied = 0

\* comporess(messages), once
Compress ==
  /\ applied = 0
  /\ yielded' = comporess(given)
  /\ applied' = 1
  /\ UNCHANGED << progVars, given >>

SpecCompress == InitCompress /\ [][Compress]_vars

\* ---------------------------------------------- NoComporess, lines 770-777
\* a copy that shares its messages with the array it was given
NoComporessShallow(ms) == [kind |-> "return", out |-> ms, fresh |-> FALSE]

\* NoComporess.comporess: JSON.parse(JSON.stringify(messages)), line 773;
\* JSON.parse builds objects of its own
NoComporess(ms) == [kind |-> "return", out |-> JsonCopy(ms), fresh |-> TRUE]

\* what a caller writes into a message it holds
EditMessage(m) == QAMessage(m.role, StringContent("edited"))

InitNoCompress ==
  /\ NeverRun
  /\ given \in QAHistories
  /\ yielded = [kind |-> "none", out |-> <<>>, fresh |-> TRUE]
  /\ applied = 0

\* comporess(messages), then comporess of its result
ApplyNoCompress ==
  /\ applied < MaxApplications
  /\ yielded.kind # "edited"
  /\ yielded' = NoComporess(IF applied = 0 THEN given ELSE yielded.out)
  /\ applied' = applied + 1
  /\ UNCHANGED << progVars, given >>

\* the caller writes into message k of the result; an object the result
\* shares with the argument is written in both
EditResult(k) ==
  /\ yielded.kind = "return"
  /\ k \in 1..Len(yielded.out)
  /\ yielded' = [yielded EXCEPT !.kind = "edited", !.out[k] = EditMessage(@)]
  /\ given' = IF yielded.fresh THEN given ELSE [given EXCEPT ![k] = EditMessage(@)]
  /\ UNCHANGED << progVars, applied >>

SpecNoCompress ==
  InitNoCompress /\ [][ApplyNoCompress \/ \E k \in 1..MaxCompressed : EditResult(k)]_vars

\* ------------------------- the tools a stream is given, lines 97-98, 314
\* JSON.parse(JSON.stringify(definition)): a description that is undefined
\* is not written
JsonDefinition(d) == [d EXCEPT !.description = JsonField(@)]

\* a round that wraps the definitions of params themselves
WrapRoundInPlace(tools) ==
  LET wrapped == [k \in 1..Len(tools) |-> wrapToolInputSchema(tools[k])]
  IN [params |-> wrapped, params_copy |-> wrapped]

\* lines 97-98: params_copy is a copy of params, and the definitions of the
\* copy are wrapped; params keeps its own
WrapRound(tools) ==
  [params |-> tools,
   params_copy |-> [k \in 1..Len(tools) |-> wrapToolInputSchema(JsonDefinition(tools[k]))]]

\* params.tools of execute, lines 443-451
AdvertisedDefinitions ==
  Definitions \cup [name : {ActName}, description : {UNDEF}, input_schema : Schemas]
ToolDefinitions == UNION { [1..n -> AdvertisedDefinitions] : n \in 1..MaxTools }

InitAdvertise ==
  /\ NeverRun
  /\ given \in ToolDefinitions
  /\ yielded = [params |-> given, params_copy |-> <<>>, advertised |-> <<>>, attempts |-> 0]
  /\ applied = 0

\* executeSingleRound is called with params, lines 97-98
BeginRound ==
  /\ applied < MaxApplications
  /\ applied = 0 \/ yielded.attempts > 0
  /\ LET r == WrapRound(yielded.params)
     IN yielded' = [params |-> r.params, params_copy |-> r.params_copy,
                    advertised |-> <<>>, attempts |-> 0]
  /\ applied' = applied + 1
  /\ UNCHANGED << progVars, given >>

\* generateStream(messages, params_copy, handler), line 314; after a
\* rejection the loop calls it again with the same params_copy
StreamAttempt ==
  /\ applied > 0
  /\ yielded.attempts <= MaxStreamErrors
  /\ yielded' = [yielded EXCEPT !.advertised = yielded.params_copy, !.attempts = @ + 1]
  /\ UNCHANGED << progVars, given, applied >>

SpecAdvertise == InitAdvertise /\ [][BeginRound \/ StreamAttempt]_vars

\* ------------------------------ BrowserUse.execute, browser_use.ts 37-277
\* A call of a tool's execute: the class of the tool and the params it is
\* called with, each key absent from params, present with null or undefined
\* (null), or present with a value.  A class has its required() keys, the
\* keys its executeWithArgs tests against null before anything else
\* (guards), the browser calls it makes one after the other (calls), whether
\* it awaits them (awaits) and whether it sleeps after them (sleeps):
\* InputText 100-113, Click 122-134 (RightClick 142-154, DoubleClick 162-174
\* and ScrollTo 182-194 are alike), GetDropdownOptions 233-244, whose browser
\* call is not awaited, and SelectDropdownOption 252-275, with the guards of
\* lines 263-268.
BrowserCalls ==
  [tool : { [name |-> "input_text", required |-> {"index", "text"}, guards |-> {},
             calls |-> 2, awaits |-> TRUE, sleeps |-> TRUE],
            [name |-> "click", required |-> {"index"}, guards |-> {},
             calls |-> 1, awaits |-> TRUE, sleeps |-> TRUE],
            [name |-> "get_dropdown_options", required |-> {"index"}, guards |-> {},
             calls |-> 1, awaits |-> FALSE, sleeps |-> TRUE],
            [name |-> "select_dropdown_option", required |-> {"index", "text"},
             guards |-> {"index", "text"},
             calls |-> 1, awaits |-> TRUE, sleeps |-> FALSE] },
   params : [{"index", "text"} -> {"absent", "null", "value"}]]

\* checkParams, lines 37-45: a required key is not in params (a key whose
\* value is null or undefined is in params)
checkParamsThrows(call) == \E key \in call.tool.required : call.params[key] = "absent"

\* the awaits of screenshotExtractElement in their order, lines 71-86
NextStage(stage) ==
  CASE stage = "sleep1" -> "inject"
    [] stage = "inject" -> "sleep2"
    [] stage = "sleep2" -> "elements"
    [] stage = "elements" -> "screenshot"
    [] stage = "screenshot" -> "unhighlight"
    [] stage = "unhighlight" -> "done"

\* pc is the await execute and screenshotExtractElement stand at; action is
\* the promise of executeWithArgs, waits the await executeWithArgs stands at,
\* issued the browser calls it has made and call the latest of them: sent to
\* the browser, made on the page, or none in flight; page is the page before
\* the action's calls, between them (mid) or after the last of them.
InitBrowser ==
  /\ NeverRun
  /\ given \in BrowserCalls
  /\ yielded = [pc |-> "idle", action |-> "none", waits |-> "none", issued |-> 0,
                call |-> "none", page |-> "before", text |-> "none", image |-> "none",
                outcome |-> "none"]
  /\ applied = 0

\* execute is called, lines 47-49: checkParams, then the await of getTabId
CallExecute ==
  /\ applied = 0
  /\ yielded' = IF checkParamsThrows(given)
                  THEN [yielded EXCEPT !.pc = "done", !.outcome = "threw"]
                  ELSE [yielded EXCEPT !.pc = "tab"]
  /\ applied' = 1
  /\ UNCHANGED << progVars, given >>

\* getTabId settles, line 49, to the await of getWindowId, line 50
GetTabId ==
  /\ yielded.pc = "tab"
  /\ yielded' = [yielded EXCEPT !.pc = "window"]
  /\ UNCHANGED << progVars, given, applied >>

\* getWindowId settles, lines 50-54: executeWithArgs is called, line 52, and
\* its promise is dropped.  It throws at once when a key it guards is null,
\* undefined or absent (params.index == null, lines 263-268), which rejects
\* the promise before any browser call; else it runs to its first await (its
\* first browser call, or the sleep behind a call it does not await).
\* screenshotExtractElement is called, line 53, and runs to its first sleep;
\* execute returns its promise.
GetWindowId ==
  /\ yielded.pc = "window"
  /\ yielded' = IF \E key \in given.tool.guards : given.params[key] # "value"
                  THEN [yielded EXCEPT !.pc = "sleep1", !.action = "failed"]
                  ELSE [yielded EXCEPT !.pc = "sleep1", !.action = "pending", !.issued = 1,
                                       !.call = "sent",
                                       !.waits = IF given.tool.awaits THEN "call"
                                                 ELSE "sleep"]
  /\ UNCHANGED << progVars, given, applied >>

\* an await of screenshotExtractElement settles, lines 71-88: the elements
\* and the screenshot are those of the page at that moment
ShotStep ==
  /\ yielded.pc \in {"sleep1", "inject", "sleep2", "elements", "screenshot", "unhighlight"}
  /\ yielded' = [yielded EXCEPT
                   !.pc = NextStage(yielded.pc),
                   !.text = IF yielded.pc = "elements" THEN yielded.page ELSE @,
                   !.image = IF yielded.pc = "screenshot" THEN yielded.page ELSE @,
                   !.outcome = IF yielded.pc = "unhighlight" THEN "returned" ELSE @]
  /\ UNCHANGED << progVars, given, applied >>

\* the browser carries out the call sent to it (clear_input_by, type_by,
\* left_click_by, ..., lines 111, 112, 133, 153, 173, 193, 244 and 269): the
\* page changes, while the call's promise is yet to settle
BrowserEffect ==
  /\ yielded.call = "sent"
  /\ yielded' = [yielded EXCEPT !.call = "made",
                                !.page = IF yielded.issued = given.tool.calls
                                           THEN "after" ELSE "mid"]
  /\ UNCHANGED << progVars, given, applied >>

\* the promise of the browser call settles.  An awaited call that resolves
\* takes executeWithArgs to its next call (line 112), to its sleep (lines
\* 113, 134, 154, 174 and 194) or to its end (line 275); one that rejects
\* rejects executeWithArgs, and nothing handles that rejection.  The call of
\* line 244 is not awaited: its settling is seen by no one.
BrowserCallSettle(ok) ==
  /\ IF ok THEN yielded.call = "made" ELSE yielded.call \in {"sent", "made"}
  /\ yielded' =
       IF yielded.waits # "call"
         THEN [yielded EXCEPT !.call = "none"]
         ELSE IF ~ok
           THEN [yielded EXCEPT !.call = "none", !.waits = "none", !.action = "failed"]
           ELSE IF yielded.issued < given.tool.calls
             THEN [yielded EXCEPT !.call = "sent", !.issued = @ + 1]
             ELSE IF given.tool.sleeps
               THEN [yielded EXCEPT !.call = "none", !.waits = "sleep"]
               ELSE [yielded EXCEPT !.call = "none", !.waits = "none", !.action = "done"]
  /\ UNCHANGED << progVars, given, applied >>

\* the sleep that ends executeWithArgs settles, lines 113, 134, 154, 174, 194
\* and 244: the promise of executeWithArgs resolves
SleepEnds ==
  /\ yielded.waits = "sleep"
  /\ yielded' = [yielded EXCEPT !.waits = "none", !.action = "done"]
  /\ UNCHANGED << progVars, given, applied >>

SpecBrowser ==
  InitBrowser /\ [][CallExecute \/ GetTabId \/ GetWindowId \/ ShotStep \/ BrowserEffect
                     \/ (\E ok \in BOOLEAN : BrowserCallSettle(ok)) \/ SleepEnds]_vars

\* ===================================================================== claims
\* the messages of type t in a round
OfType(ms, t) == { k \in 1..Len(ms) : ms[k].type = t }
\* execute resumes after the executeSingleRound call it awaited
Resumes == pc = "ret" /\ pc' # "ret"
\* the tool exposure of a finish-only round: the return tool and nothing else
FinishOnly(map) == \A n \in CallNames : MapHas(map, n) <=> n = ReturnName

\* C1: in one run the loop enters at most maxRounds full rounds and at most
\* one finish-only round, so at most maxRounds + 1 rounds; the round counter
\* never exceeds maxRounds and never decreases within a run.
C1_RoundBudget ==
  /\ [](/\ roundCount <= maxRounds
        /\ committed.full <= roundCount
        /\ committed.finish <= 1
        /\ committed.full + committed.finish <= maxRounds + 1)
  /\ [][runNo' = runNo => roundCount' >= roundCount]_vars
C1_Witness ==
  /\ pc = "done"
  /\ maxRounds > 1
  /\ committed.full = maxRounds
  /\ committed.finish = 1

\* C3: a full round that completes with text only (the stream completed and
\* delivered no invocation) gets exactly one instruction appended and is
\* followed by one round exposing only the finish capability; when that round
\* returns, its messages are appended and the loop is left for finalization,
\* with no further round and no further instruction.
C3_TextOnlyRound ==
  /\ [][(Resumes /\ phase = "full" /\ completed /\ calls = <<>>) =>
          /\ messages' = Append(messages \o roundMessages, TextMsg("user", NoToolInstruction))
          /\ committed'.instr = committed.instr + 1
          /\ phase' = "notool"
          /\ pc' = "attempt"]_vars
  /\ [][(phase = "notool" /\ runNo' = runNo) =>
          /\ phase' = "notool"
          /\ roundCount' = roundCount
          /\ committed'.instr = committed.instr
          /\ committed'.full = committed.full
          /\ Resumes => (pc' = "final" /\ messages' = messages \o roundMessages)]_vars
  /\ [](phase = "notool" =>
          /\ FinishOnly(CurToolMap)
          /\ committed.instr = 1
          /\ committed.finish <= 1
          /\ pc \in {"final", "done"} => committed.finish = 1)
C3_Witness ==
  /\ pc = "done"
  /\ phase = "notool"
  /\ outcome.kind = "return"
  /\ committed.finish = 1
  /\ \E k \in 1..Len(messages) : messages[k] = TextMsg("user", NoToolInstruction)

\* C5: a full round whose stream completed with an invocation of
\* return_output ends the loop at once: its messages are appended, no
\* instruction is added and no finish-only round runs, also when the round is
\* round maxRounds (the check for return_output comes before the last-round
\* check).
C5_ReturnEndsLoop ==
  /\ [][(Resumes /\ phase = "full" /\ completed
           /\ \E k \in 1..Len(calls) : calls[k] = ReturnName) =>
          /\ pc' = "final"
          /\ messages' = messages \o roundMessages
          /\ roundCount' = roundCount
          /\ committed'.instr = committed.instr
          /\ committed'.finish = committed.finish]_vars
  /\ []((pc \in {"final", "done"} /\ phase = "full") =>
          (committed.instr = 0 /\ committed.finish = 0))
C5_Witness ==
  /\ pc = "done"
  /\ phase = "full"
  /\ roundCount = maxRounds
  /\ committed.full = maxRounds
  /\ committed.instr = 0
  /\ \E k \in OfType(lastRound.msgs, "tool_use") : lastRound.msgs[k].name = ReturnName

\* C2: every committed round that contains a tool_use message contains
\* exactly one tool_result message, and that one carries the tool_use's
\* identifier, whatever the order of the stream's text, invocations and
\* completion.
C2_Pairing ==
  OfType(lastRound.msgs, "tool_use") # {} =>
    /\ Cardinality(OfType(lastRound.msgs, "tool_result")) = 1
    /\ \A u \in OfType(lastRound.msgs, "tool_use"), r \in OfType(lastRound.msgs, "tool_result") :
         lastRound.msgs[r].id = lastRound.msgs[u].id

\* the return_output invocations a round committed together with the tool's
\* answer for the same identifier
Answered(ms) ==
  { ms[u].input : u \in { u \in OfType(ms, "tool_use") :
      /\ ms[u].name = ReturnName
      /\ \E r \in OfType(ms, "tool_result") :
           ms[r].id = ms[u].id /\ ms[r].arr /\ ~ms[r].is_error } }

\* C4: when round maxRounds ended with an invocation other than
\* return_output (and the run was not cancelled), one forced-finish
\* instruction is appended, exactly one finish-only round runs, and the run
\* returns the value supplied in that round, or the empty output when no
\* attempt of that round invoked return_output.
C4_ForcedFinish ==
  (pc = "done" /\ phase = "maxed" /\ ~signalAborted) =>
    /\ committed.instr = 1
    /\ committed.finish = 1
    /\ outcome.kind = "return"
    /\ finishCalls = 0 => outcome.nodeOutput = EmptyOutput
    /\ \A p \in Answered(lastRound.msgs) :
         (p.tag = "payload" /\ ~p.use_tool_result) =>
           outcome.nodeOutput = (IF p.value = UNDEF THEN EmptyOutput ELSE p.value)

\* C6: with use_tool_result set, the run returns the result recorded last in
\* time among the run's non-finish invocations, also when an identifier was
\* used by more than one invocation.
C6_LastRecorded ==
  (pc = "done" /\ finalView.params.tag = "payload" /\ finalView.params.use_tool_result
     /\ finalView.recorded.n > 0) =>
    (outcome.kind = "return" /\ outcome.nodeOutput = finalView.recorded.last)

\* C7: the cache of tool results belongs to one run: with use_tool_result set
\* and no non-finish result recorded in this run, the run returns the empty
\* output, also when the instance completed an earlier run.
C7_CachePerRun ==
  (pc = "done" /\ finalView.params.tag = "payload" /\ finalView.params.use_tool_result
     /\ finalView.recorded.n = 0) =>
    (outcome.kind = "return" /\ outcome.nodeOutput = EmptyOutput)

\* C8: a run that reaches finalization with no payload stored returns
\* normally, with the empty output and the conversation history.
C8_NoPayload ==
  (pc = "done" /\ finalView.params.tag = "none") =>
    outcome = Returned(EmptyOutput, messages)
C8_Witness ==
  /\ pc = "done"
  /\ finalView.params.tag = "none"
  /\ committed.finish = 1
  /\ outcome.kind = "return"
  /\ outcome.nodeOutput = EmptyOutput

\* the message of the error execution e meets when its hook or its tool throws
ThrownText(e) ==
  IF e.stage = "exec" /\ e.origin = "return" /\ ReturnToolThrows(e.input)
    THEN TypeErrorText ELSE ErrText
\* execution i takes a step in which a hook or the tool throws
ThrowStep(i) ==
  \/ BeforeSettle(i, "throw")
  \/ ExecReject(i)
  \/ AfterSettle(i, "throw")

\* C9: an error thrown by the before hook, the tool or the after hook is
\* turned into the invocation's tool_result, flagged is_error, with the text
\* 'Error: <message>'; it never leaves the round: the step neither moves the
\* run nor sets an outcome, the round's messages are committed as assembled,
\* and a run fails only by cancellation, by a failure of the browser proxy
\* before the first round or for want of a provider.
C9_ErrorsBecomeResults ==
  /\ [][\A i \in 1..MaxExecs :
          (i <= Len(execs) /\ execs[i].live /\ ThrowStep(i)) =>
            /\ toolResultMessage'.role = "user"
            /\ toolResultMessage'.type = "tool_result"
            /\ toolResultMessage'.id = execs[i].id
            /\ toolResultMessage'.is_error
            /\ toolResultMessage'.content =
                 << [type |-> "text", data |-> "Error: " \o ThrownText(execs[i])] >>
            /\ pc' = pc
            /\ outcome' = outcome]_vars
  /\ [][(Resumes /\ toolResultMessage.is_error) =>
          \E k \in 1..Len(messages') : messages'[k] = toolResultMessage]_vars
  /\ [](outcome.kind = "throw" =>
          outcome.error \in {"Abort", "Workflow cancelled", "no window", "LLM provider not set"})
C9_Witness ==
  /\ pc = "stream"
  /\ roundCount = 2
  /\ \E k \in 1..Len(messages) :
       /\ messages[k].type = "tool_result"
       /\ messages[k].is_error
       /\ messages[k].content = << [type |-> "text", data |-> "Error: disk full"] >>

\* C10: an invocation of a name the round does not expose does not abort the
\* round: the stream goes on, and the round completes with the tool_use and
\* the failed tool_result for the same identifier.
C10_UnknownTool ==
  [][\A id \in Ids, name \in CallNames :
       (/\ pc = "stream"
        /\ ~MapHas(CurToolMap, name)
        /\ calls' = Append(calls, name)
        /\ toolUseMessage' = ToolUseMsg(id, name, ActArgs)
        /\ toolResultMessage' = NotFoundResult(id, name)) =>
         pc' = "stream"]_vars

\* C11: once the abort flag is set in a run (by a listener of the signal or
\* by a hook, so while a round is in progress), execute does not return a
\* result: no step of the run ends it normally.
C11_CancelRaises ==
  [][(abortFlag /\ pc # "done") => pc' # "done"]_vars

\* execution i takes a step
ExecStep(i) ==
  \/ \E o \in BeforeOutcomes : BeforeSettle(i, o)
  \/ ExecReject(i)
  \/ \E r \in ToolResults \cup {ReturnToolResult} : ExecResolve(i, r)
  \/ \E o \in AfterOutcomes : AfterSettle(i, o)

\* C12: a stream attempt that fails commits nothing; the retry starts from
\* empty text, no tool_use, no tool_result, hasToolUse false and no response;
\* an execution the failed attempt started writes nothing the retry reads;
\* so the attempt that succeeds reports its own invocations only.
C12_RetryFromScratch ==
  /\ [][(pc = "stream" /\ pc' = "attempt") =>
          (Len(messages') = Len(messages) /\ committed' = committed)]_vars
  /\ [][(pc = "attempt" /\ ~signalAborted /\ llmProvider) =>
          /\ pc' = "stream"
          /\ Len(messages') = Len(messages)
          /\ roundMessages' = <<>>
          /\ ~hasToolUse'
          /\ ~response'.present
          /\ assistantTextMessage' = ""
          /\ toolUseMessage' = NoMsg
          /\ toolResultMessage' = NoMsg]_vars
  /\ [][\A i \in 1..MaxExecs :
          (i <= Len(execs) /\ ~execs[i].live /\ ExecStep(i)) =>
            UNCHANGED << messages, response, hasToolUse, roundMessages,
                         assistantTextMessage, toolUseMessage, toolResultMessage >>]_vars
  /\ []((pc = "ret" /\ completed) =>
          /\ hasToolUse = (calls # <<>>)
          /\ response.present /\ response.toolCalls = calls
          /\ calls = <<>> => \A k \in 1..Len(roundMessages) : roundMessages[k].type = "text")
C12_Witness ==
  /\ pc = "ret"
  /\ completed
  /\ phase = "full"
  /\ roundCount = 1
  /\ calls = <<>>
  /\ budget.err < MaxStreamErrors
  /\ budget.inv < MaxInvocations
  /\ \E i \in 1..Len(execs) : ~execs[i].live

\* C13: at every instant at most one tool.execute call of the run is in
\* flight.
C13_OneInFlight ==
  Cardinality({ i \in 1..Len(execs) : execs[i].stage = "exec" }) <= 1

\* the place of a message's type in a round
Rank(m) == IF m.type = "text" THEN 1 ELSE IF m.type = "tool_use" THEN 2 ELSE 3
\* at most one message of each type, in the order text, tool_use, tool_result,
\* and the text is a non-empty assistant text
Ordered(ms) ==
  /\ \A j, k \in 1..Len(ms) : j < k => Rank(ms[j]) < Rank(ms[k])
  /\ \A k \in 1..Len(ms) : ms[k].type = "text" => (ms[k].role = "assistant" /\ ms[k].text # "")

\* C14: every round's messages are in the order assistant text (only when
\* non-empty), tool_use, tool_result, whatever the order of arrival in the
\* stream; a round's messages are appended to the history as one block when
\* the round returns, and the seeded history grows at no other time.
C14_MessageOrder ==
  /\ [](Ordered(lastRound.msgs) /\ (pc = "ret" => Ordered(roundMessages)))
  /\ [][Resumes =>
          /\ Len(messages') >= Len(messages) + Len(roundMessages)
          /\ SubSeq(messages', 1, Len(messages) + Len(roundMessages)) = messages \o roundMessages
          /\ lastRound'.msgs = roundMessages]_vars
  /\ [][((~Resumes) /\ pc # "tabs" /\ runNo' = runNo) => Len(messages') = Len(messages)]_vars
C14_Witness ==
  /\ committed.full = 2
  /\ Len(lastRound.msgs) = 3
  /\ lastRound.msgs[1].type = "text"
  /\ lastRound.msgs[2].type = "tool_use"
  /\ lastRound.msgs[3].type = "tool_result"
  /\ Len(messages) = 7
  /\ SubSeq(messages, 5, 7) = lastRound.msgs
  /\ messages[3].type = "tool_use"

\* the index of the most recent user-role message, 0 when there is none
LastUser(ms) ==
  IF \E k \in 1..Len(ms) : ms[k].role = "user"
    THEN CHOOSE k \in 1..Len(ms) :
           ms[k].role = "user" /\ \A j \in (k + 1)..Len(ms) : ms[j].role # "user"
    ELSE 0
HasImage(m) == \E k \in 1..Len(m.content) : m.content[k].type = "image"

\* C15: after any number of applications, the pruned history has the
\* length of the one handed in and its most recent user-role message is the
\* one handed in, image blocks included.
C15_LatestUserKept ==
  /\ Len(yielded) = Len(given)
  /\ LastUser(yielded) = LastUser(given)
  /\ LastUser(given) # 0 => yielded[LastUser(given)] = given[LastUser(given)]
C15_Witness ==
  /\ applied = MaxApplications
  /\ LastUser(given) # 0
  /\ HasImage(given[LastUser(given)])
  /\ HasImage(yielded[LastUser(given)])
  /\ yielded # given

\* C16: pruning a pruned history changes nothing.
C16_PruneIdempotent ==
  applied >= 1 => handleHistoryImageMessages(yielded) = yielded
C16_Witness ==
  /\ applied = 1
  /\ yielded # given
  /\ \E k \in 1..Len(given) :
       given[k].content = <<ImageBlock, ImageBlock>> /\ yielded[k].content = <<TextBlock("ok")>>

\* a registry in which return_output is the run's return tool, once
FinishRegistered(map) ==
  /\ MapHas(map, ReturnName)
  /\ MapGet(map, ReturnName) = ReturnTool
  /\ Cardinality({ k \in 1..Len(map) : Advertised(map)[k].name = ReturnName }) = 1
  /\ \A k \in 1..Len(map) : Advertised(map)[k].name = ReturnName => Advertised(map)[k] = ReturnTool

\* C17: whatever tools the caller and the context supply, also under the
\* name return_output, the registry of the full rounds and the registry of
\* the finish-only rounds map return_output to the run's return tool, and the
\* list advertised to the model holds it.
C17_FinishNotShadowed ==
  /\ FinishRegistered(ReturnOnlyMap)
  /\ FinishRegistered(BuildToolMap)
  /\ applied = 1 => FinishRegistered(yielded)
C17_Witness ==
  /\ applied = 1
  /\ \E k \in 1..Len(given.action) : given.action[k].name = ReturnName
  /\ \E k \in 1..Len(given.context) : given.context[k].name = ReturnName
  /\ Len(yielded) = 2
  /\ yielded[1].val = ReturnTool

\* C18: every normal return carries the whole history: the seed system
\* message, the seed user message, then every message the rounds committed
\* and every instruction appended, the last round's messages at the end and
\* the instruction of a finish-only round right before them.
C18_FullHistory ==
  (pc = "done" /\ outcome.kind = "return") =>
    /\ outcome.reacts = messages
    /\ Len(messages) = 2 + committed.msgs + committed.instr
    /\ messages[1] = TextMsg("system", SystemPrompt)
    /\ messages[2] = TextMsg("user", UserPrompt)
    /\ SubSeq(messages, Len(messages) - Len(lastRound.msgs) + 1, Len(messages)) = lastRound.msgs
    /\ phase = "notool" =>
         messages[Len(messages) - Len(lastRound.msgs)] = TextMsg("user", NoToolInstruction)
    /\ phase = "maxed" =>
         messages[Len(messages) - Len(lastRound.msgs)] = TextMsg("user", MaxRoundsInstruction)
C18_Witness ==
  /\ pc = "done"
  /\ outcome.kind = "return"
  /\ finalView.params.tag = "payload"
  /\ finalView.params.use_tool_result
  /\ outcome.nodeOutput = EmptyOutput
  /\ phase = "notool"
  /\ Len(outcome.reacts) = 6

\* What the code's scheduling and the awaited parties give: the run's own
\* steps are taken when they can be, the browser proxy answers, every hook
\* and every tool.execute settles, and every attempt's generateStream
\* settles, resolving or rejecting.  Nothing bounds the attempts that fail or
\* the invocations a run delivers, and nothing is assumed of the caller's
\* abort.
Progress ==
  /\ WF_vars(\E ok \in BOOLEAN : WindowsGetCurrent(ok))
  /\ WF_vars(\E ok \in BOOLEAN : TabsQuery(ok))
  /\ WF_vars(LoopHead)
  /\ WF_vars(AttemptStart)
  /\ WF_vars(StreamEnd \/ StreamError)
  /\ WF_vars(\E i \in 1..MaxExecs : ExecStep(i))
  /\ WF_vars(JoinRound)
  /\ WF_vars(AfterRound)
  /\ WF_vars(Finalize)

\* a run whose every attempt, of every round, may deliver an invocation and
\* may fail: the environment never runs out of either
InitLive ==
  /\ Constructed
  /\ maxRounds \in 1..MaxRoundsCfg
  /\ llmProvider \in BOOLEAN
  /\ budget = [runs |-> MaxRuns, inv |-> MaxInvocationsLive, err |-> MaxStreamErrors,
               text |-> 0, perAttempt |-> TRUE]
  /\ given = <<>>
  /\ yielded = <<>>
  /\ applied = 0

\* The steps of Next, with the environment's data drawn from smaller sets:
\* one id, the names of the action's tool and of the return tool (the first
\* is unknown to a finish-only round), one payload, one tool result, no text
\* but whitespace, and hooks that pass, flag an abort or throw.  What is left
\* out (a second value of each kind, a hook's skip or rewrite) changes the
\* messages a round writes and not the way the loop goes.
NextLive ==
  \/ Execute
  \/ \E ok \in BOOLEAN : WindowsGetCurrent(ok)
  \/ \E ok \in BOOLEAN : TabsQuery(ok)
  \/ LoopHead
  \/ AttemptStart
  \/ \E c \in Chunks : OnContent(c)
  \/ \E name \in {ActName, ReturnName}, propagate \in BOOLEAN :
       OnToolUseUnknown(IdOrder[1], name, propagate)
  \/ \E name \in {ActName, ReturnName},
        input \in {ActArgs, [tag |-> "payload", isSuccessful |-> TRUE,
                             use_tool_result |-> FALSE, value |-> "V"]} :
       input \in CallInputs(name) /\ OnToolUseKnown(IdOrder[1], name, input)
  \/ OnComplete
  \/ StreamEnd
  \/ StreamError
  \/ \E i \in 1..MaxExecs, o \in {"pass", "abort", "throw"} : BeforeSettle(i, o)
  \/ \E i \in 1..MaxExecs : ExecReject(i)
  \/ \E i \in 1..MaxExecs, r \in {[text |-> "A", image |-> FALSE], ReturnToolResult} :
       ExecResolve(i, r)
  \/ \E i \in 1..MaxExecs, o \in {"pass", "abort", "throw"} : AfterSettle(i, o)
  \/ JoinRound
  \/ AfterRound
  \/ Finalize
  \/ SignalAbort

SpecLive == InitLive /\ [][NextLive]_vars /\ Progress

\* the transport does not fail forever: a stream that can complete again and
\* again does complete, and a completed stream that can resolve again and
\* again does resolve
TransportRecovers == SF_vars(OnComplete) /\ SF_vars(StreamEnd)
\* execute raised the cancellation error, lines 327 and 459
Cancelled == pc = "failed" /\ outcome.kind = "throw"
               /\ outcome.error \in {"Abort", "Workflow cancelled"}
\* execute raised the browser proxy's error, lines 415-416, or the error of
\* line 311
SetupFailed == pc = "failed" /\ outcome.kind = "throw"
                 /\ outcome.error \in {"no window", "LLM provider not set"}

C20_EnvelopeRoundTrip ==
  /\ (applied = 1 /\ given.kind = "call") =>
       /\ yielded.toolCall.input = given.arg.input.toolCall
       /\ yielded.toolCall.id = given.arg.id
       /\ yielded.toolCall.name = given.arg.name
       /\ yielded.observation = given.arg.input.observation
       /\ yielded.thinking = given.arg.input.thinking
       /\ yielded.userSidePrompt = given.arg.input.userSidePrompt
  /\ (applied = 1 /\ given.kind = "definition") =>
       /\ yielded.name = given.arg.name
       /\ yielded.description = given.arg.description
       /\ yielded.input_schema.type = "object"
       /\ yielded.input_schema.properties.toolCall = given.arg.input_schema
       /\ \E k \in 1..Len(yielded.input_schema.required) :
            yielded.input_schema.required[k] = "toolCall"
C20_Witness ==
  /\ applied = 1
  /\ given.kind = "call"
  /\ given.arg.input.toolCall \in Payloads
  /\ given.arg.input.observation # UNDEF
  /\ given.arg.input.thinking = "draft"
  /\ yielded.toolCall.input = given.arg.input.toolCall

\* C21: when the before hook has returned and the skip flag, the abort flag
\* or the aborted signal is set, the execution ends there: tool.execute and
\* the after hook are not called (the execution is gone, the store is as it
\* was), the cache is not modified, and the invocation's tool_result is the
\* string 'skip' without is_error, the same for a skip the hook asked for and
\* for a cancellation.
C21_SkipOrCancel ==
  [][\A i \in 1..MaxExecs, o \in {"pass", "skip", "abort", "rewrite"} :
       (/\ i <= Len(execs)
        /\ BeforeSettle(i, o)
        /\ (skipFlag \/ abortFlag \/ signalAborted \/ o \in {"skip", "abort"})) =>
         /\ execs' = RemoveAt(execs, i)
         /\ toolResults' = toolResults
         /\ variables' = variables
         /\ recorded' = recorded
         /\ execs[i].live =>
              /\ toolResultMessage'.role = "user"
              /\ toolResultMessage'.type = "tool_result"
              /\ toolResultMessage'.id = execs[i].id
              /\ ~toolResultMessage'.arr
              /\ toolResultMessage'.text = "skip"
              /\ ~toolResultMessage'.is_error]_vars
C21_Witness ==
  /\ pc = "join"
  /\ signalAborted
  /\ ~skipFlag
  /\ execs = <<>>
  /\ toolResults = <<>>
  /\ toolResultMessage.type = "tool_result"
  /\ toolResultMessage.text = "skip"
  /\ toolUseMessage.id = toolResultMessage.id

\* C22: once the signal is aborted no stream is opened: not for a new
\* round, not for a retry after a transport error, not for a finish-only
\* round.
C22_NoStreamAfterAbort ==
  [][(signalAborted /\ pc # "stream") => pc' # "stream"]_vars
C22_Witness ==
  /\ pc = "ret"
  /\ signalAborted
  /\ phase = "maxed"
  /\ ~completed
  /\ lastRound.phase = "full"

\* C23: from the moment cancellation is flagged (the signal is aborted or
\* the abort flag is set) until the run ends, nothing is appended to the
\* seeded history.
C23_NoCommitAfterCancel ==
  [][((signalAborted \/ abortFlag) /\ runNo' = runNo /\ pc # "tabs") =>
       Len(messages') = Len(messages)]_vars

\* the keys of a store
StoreKeys(store) == { store[k].key : k \in 1..Len(store) }
\* two stores agree on every key but one
SameExcept(a, b, key) ==
  \A k \in (StoreKeys(a) \cup StoreKeys(b)) \ {key} :
    MapHas(a, k) /\ MapHas(b, k) /\ MapGet(a, k) = MapGet(b, k)

\* the beforeToolUse hook of execution i settles without a request of its own
QuietHook(i) == BeforeSettle(i, "pass") \/ BeforeSettle(i, "rewrite")

\* C24: an execution of return_output changes the variable store at the
\* key '__action_<actionName>_output' only, where it puts the payload it was
\* called with.
C24_FinishWritesOneKey ==
  [][\A i \in 1..MaxExecs :
       (i <= Len(execs) /\ execs[i].origin = "return" /\ QuietHook(i)
          /\ variables' # variables) =>
         /\ MapGet(variables', OutputKey) = execs'[i].input
         /\ SameExcept(variables, variables', OutputKey)]_vars

\* C25: when execute returns normally, with a value or with the empty
\* result, the key '__action_<actionName>_output' is absent from the
\* variable store.
C25_PayloadConsumed ==
  [][(pc = "final" /\ pc' = "done") => ~MapHas(variables', OutputKey)]_vars

\* C26: every entry the cache records is a text of at most maxLength
\* characters plus the suffix '...(truncated)', and an execution of
\* return_output records nothing.
C26_CacheEntriesBounded ==
  applied = 1 =>
    /\ given.name = ReturnName => yielded = given.cache
    /\ given.name # ReturnName =>
         /\ MapHas(yielded, given.id)
         /\ Len(MapGet(yielded, given.id)) <= maxLength + Len(TruncatedSuffix)

\* C27: after pruning, an array tool_result in a user-role message older
\* than the most recent user-role message holds no image block and keeps
\* its tool_use_id; one whose content was images only holds exactly the
\* text block 'ok'.
C27_OldImagesPruned ==
  applied >= 1 =>
    /\ Len(yielded) = Len(given)
    /\ \A k \in 1..Len(given) :
         (given[k].role = "user" /\ k < LastUser(given)
            /\ given[k].type = "tool_result" /\ given[k].arr) =>
           /\ yielded[k].type = "tool_result" /\ yielded[k].arr
           /\ ~HasImage(yielded[k])
           /\ yielded[k].id = given[k].id
           /\ (Len(given[k].content) > 0
                 /\ \A j \in 1..Len(given[k].content) : given[k].content[j].type = "image")
                => yielded[k].content = <<TextBlock("ok")>>
C27_Witness ==
  /\ applied = 1
  /\ Len(given) = 3
  /\ \A k \in 1..3 : given[k] = ArrResultMsg("a", <<ImageBlock>>, FALSE)
  /\ yielded[1].content = <<TextBlock("ok")>>
  /\ yielded[2].content = <<TextBlock("ok")>>
  /\ yielded[3] = given[3]

\* C28: within a run the history never gets shorter, every message keeps
\* its index and role, and a message changes after it was appended only by
\* losing the image blocks of an array tool_result, and only if it is a
\* user-role message older than the most recent user-role message.
C28_AppendOnly ==
  [][runNo' = runNo =>
       /\ Len(messages') >= Len(messages)
       /\ \A k \in 1..Len(messages) :
            /\ messages'[k].role = messages[k].role
            /\ messages'[k] # messages[k] =>
                 /\ messages[k].role = "user"
                 /\ k < LastUser(messages)
                 /\ messages[k].type = "tool_result" /\ messages[k].arr
                 /\ HasImage(messages[k])
                 /\ messages'[k] = StripImages(messages[k])]_vars
C28_Witness ==
  /\ Len(messages) >= 5
  /\ \E k \in 1..Len(messages) :
       /\ k < LastUser(messages)
       /\ messages[k].type = "tool_result"
       /\ messages[k] = StripImages(ResultMessage(messages[k].id, [text |-> "B", image |-> TRUE]))

\* C29: the store and the cache are written only by an execution of the
\* round attempt in progress or by finalization: a step of an execution
\* whose attempt is over (discarded by a transport error, or returned)
\* leaves both as they were.
C29_OnlyCurrentAttemptWrites ==
  [][\A i \in 1..MaxExecs :
       (i <= Len(execs) /\ ~execs[i].live /\ ExecStep(i)) =>
         (variables' = variables /\ toolResults' = toolResults)]_vars

\* a message the compressor answers with one message of its output
Kept(m) == m.role \in {"system", "assistant", "user"} \/ m.content.isString
\* the position in the output of what was pushed for the message at i
OutIndex(ms, i) == Cardinality({ k \in 1..i : Kept(ms[k]) })

\* C30: for a user-role message at i that is not the last one, when the
\* observation cannot be read from the message at i + 1, the output of
\* comporess holds the message at i itself at that position.
C30_FallbackKeepsMessage ==
  (applied = 1 /\ yielded.kind = "return") =>
    \A i \in 1..(Len(given) - 1) :
      (given[i].role = "user" /\ FirstInputThrows(given[i + 1])) =>
        yielded.out[OutIndex(given, i)] = given[i]

\* a history whose messages have the roles of the Message type
Typed(ms) == \A k \in 1..Len(ms) : ms[k].role \in {"system", "assistant", "user"}

\* C31: comporess returns one output message per input message, in order,
\* and every system message of the input is in the output at its index,
\* unchanged.
C31_OnePerMessage ==
  (applied = 1 /\ Typed(given)) =>
    /\ yielded.kind = "return"
    /\ Len(yielded.out) = Len(given)
    /\ \A k \in 1..Len(given) :
         given[k].role = "system" => yielded.out[k] = given[k]

\* b is a, except that a property of a tool call's input whose value is
\* undefined in a is absent from b
SameField(a, b) == b = a \/ (a = UNDEF /\ b = Absent)
SameBlock(a, b) ==
  /\ b.type = a.type /\ b.text = a.text /\ b.input.present = a.input.present
  /\ SameField(a.input.userSidePrompt, b.input.userSidePrompt)
  /\ SameField(a.input.thinking, b.input.thinking)
  /\ SameField(a.input.observation, b.input.observation)
  /\ UNDEF \notin {b.input.userSidePrompt, b.input.thinking, b.input.observation}
JsonImage(a, b) ==
  /\ Len(b) = Len(a)
  /\ \A k \in 1..Len(a) :
       /\ b[k].role = a[k].role
       /\ b[k].content.isString = a[k].content.isString
       /\ b[k].content.text = a[k].content.text
       /\ Len(b[k].content.blocks) = Len(a[k].content.blocks)
       /\ \A j \in 1..Len(a[k].content.blocks) :
            SameBlock(a[k].content.blocks[j], b[k].content.blocks[j])

\* C32 as stated: the history NoComporess returns equals its input.
C32_EqualToInput ==
  (applied >= 1 /\ yielded.kind = "return") => yielded.out = given

\* C32: the history NoComporess returns is its input without the properties
\* whose value is undefined; the input stays as it was, also when the
\* caller writes into the result; applying NoComporess to its result
\* returns that result.
C32_DeepCopy ==
  /\ []((applied >= 1 /\ yielded.kind = "return") => JsonImage(given, yielded.out))
  /\ [][given' = given]_vars
  /\ [][(applied >= 1 /\ applied' = applied + 1) => yielded'.out = yielded.out]_vars
C32_Witness ==
  /\ applied = MaxApplications
  /\ yielded.kind = "edited"
  /\ yielded.out # given
  /\ \E k \in 1..Len(given) :
       /\ Len(given[k].content.blocks) > 0
       /\ given[k].content.blocks[1].input.thinking = UNDEF

\* C33: while a finish-only round is under way, the only tool whose execute
\* is called is return_output.
C33_FinishRoundRunsReturnOnly ==
  [][\A i \in 1..MaxExecs :
       (i <= Len(execs) /\ phase # "full" /\ pc \in {"stream", "join"}
          /\ QuietHook(i) /\ Len(execs') = Len(execs)
          /\ execs'[i].stage = "exec") =>
         execs[i].name = ReturnName]_vars

\* C34: an invocation whose beforeToolUse hook returns without asking for a
\* skip, with no cancellation flagged, has its tool executed.
C34_SkipIsPerInvocation ==
  [][\A i \in 1..MaxExecs :
       (i <= Len(execs) /\ QuietHook(i) /\ ~abortFlag /\ ~signalAborted) =>
         (Len(execs') = Len(execs) /\ execs'[i].stage = "exec")]_vars

\* a schema that is the envelope of wrapToolInputSchema
IsEnvelope(schema) == schema.required = EnvelopeFields

\* C35: in every stream attempt of every round each advertised schema is
\* the envelope around the tool's own schema, which is not an envelope, and
\* the definitions of params are the ones execute built.
C35_WrappedOnce ==
  /\ yielded.params = given
  /\ \A k \in 1..Len(given) : ~IsEnvelope(yielded.params[k].input_schema)
  /\ yielded.attempts > 0 =>
       /\ Len(yielded.advertised) = Len(given)
       /\ \A k \in 1..Len(given) :
            /\ yielded.advertised[k].name = given[k].name
            /\ IsEnvelope(yielded.advertised[k].input_schema)
            /\ yielded.advertised[k].input_schema.properties.toolCall = given[k].input_schema
C35_Witness ==
  /\ applied = MaxApplications
  /\ yielded.attempts = MaxStreamErrors + 1
  /\ Len(given) = MaxTools
  /\ Len(yielded.advertised) = MaxTools
  /\ IsEnvelope(yielded.advertised[1].input_schema)

\* C36: screenshotExtractElement runs only once the action has settled; an
\* action that failed makes execute fail; a returned screenshot shows the
\* page after the action.
C36_ShotAfterAction ==
  /\ yielded.pc \in {"sleep1", "inject", "sleep2", "elements", "screenshot", "unhighlight"}
       => yielded.action \in {"done", "failed"}
  /\ yielded.action = "failed" => yielded.outcome # "returned"
  /\ yielded.outcome = "returned" => (yielded.action = "done" /\ yielded.image = "after")

====
